---- MODULE Spec2Model ----
(***************************************************************************)
(* Decentralized KYC backend: the consent engine (app/api/consent.py),     *)
(* the document vault (app/api/kyc.py), the signature gate                 *)
(* (app/core/security.py) and the tables of app/db/database.py.            *)
(*                                                                         *)
(* Tables are sequences in insertion order; a row's primary key (a uuid4   *)
(* in the code) is its creation ordinal, and Query.first() is the first    *)
(* matching row.  Optional (nullable) columns are <<>> (NULL) or <<v>>.    *)
(* AuditLog.ip_address and the e-mail/name columns of User carry no        *)
(* control flow and are left out; an audit entry's details keep the        *)
(* values the code formats into the string.                                *)
(***************************************************************************)
EXTENDS Integers, Sequences, FiniteSets, TLC

VARIABLES consents, kyc_records, audit, store, now, resp, pc, settings,
          sessions

vars == <<consents, kyc_records, audit, store, now, resp, pc, settings,
          sessions>>

----------------------------------------------------------------------------
(* Bounds of the model *)
MaxConsents == 2
MaxUploads == 1
MaxAudit == 6
MaxTx == 1
MaxVaultAudit == 5
MaxReuploads == 3
MaxLog == 3

----------------------------------------------------------------------------
(* users table: the registered accounts (registration is app/api/auth.py) *)
Subjects == {"u1", "u2"}
Banks == {"b1", "b2"}
Validators == {"v1"}
UserIds == Subjects \cup Banks \cup Validators

None == <<>>
Some(x) == <<x>>

role(u) ==
  IF u \in Subjects THEN "user"
  ELSE IF u \in Validators THEN "validator"
  ELSE "bank"

\* User.wallet_address as stored at registration.  u1 registered the
\* lower-case form of its address, u2 the checksum form.
wallet_address(u) ==
  CASE u = "u1" -> "0xaa01"
    [] u = "u2" -> "0xBB02"
    [] u = "b1" -> "0xDEMO_B1"
    [] u = "b2" -> "0xDEMO_B2"
    [] u = "v1" -> "0xDEMO_V1"

\* the private keys that exist outside the server, one per subject
Keys == {"key_u1", "key_u2"}

\* eth_account derives the checksum address of a key
AddressOf(k) == IF k = "key_u1" THEN "0xAA01" ELSE "0xBB02"

\* str.lower() on the addresses of the model
lower(a) ==
  CASE a = "0xAA01" -> "0xaa01"
    [] a = "0xBB02" -> "0xbb02"
    [] a = "0xDEAD" -> "0xdead"
    [] OTHER -> a

----------------------------------------------------------------------------
(* consent messages and signatures, produced client side *)
MsgOps == {"GRANT_CONSENT", "REVOKE_CONSENT"}
Nonces == {1}
Messages == [op : MsgOps, bank : Banks, nonce : Nonces]

\* a signature is what a key produced over a message; "malformed" is a
\* string that is not a 65-byte signature
Sign(k, m) == [key |-> k, msg |-> m]
Malformed == Sign("malformed", [op |-> "GRANT_CONSENT", bank |-> "b1", nonce |-> 1])
Signatures == {Sign(k, m) : k \in Keys, m \in Messages} \cup {Malformed}

\* Account.recover_message: the signer's address when the signature was made
\* over this very message, else an address nobody holds; raises on a
\* malformed signature
recover_message(message, signature) ==
  IF signature.msg = message THEN AddressOf(signature.key) ELSE "0xDEAD"

\* a verifier that checks who signed but not what was signed
verify_eth_signature_signer_only(message, signature, expected_address) ==
  IF signature.key = "malformed" THEN FALSE
  ELSE lower(AddressOf(signature.key)) = lower(expected_address)

verify_eth_signature(message, signature, expected_address) ==
  IF signature.key = "malformed" THEN FALSE
  ELSE lower(recover_message(message, signature)) = lower(expected_address)

----------------------------------------------------------------------------
(* Query helpers *)
Idx(s) == 1..Len(s)

\* Query.first(): the first row satisfying P, as <<>> or <<index>>
First(s, P(_)) ==
  LET hits == {i \in Idx(s) : P(s[i])}
  IN IF hits = {} THEN None
     ELSE Some(CHOOSE i \in hits : \A j \in hits : i <= j)

Live == {"pending", "granted"}

----------------------------------------------------------------------------
(* users table, in registration order *)
users == <<"u1", "u2", "b1", "b2", "v1">>

\* db.query(User).filter(User.id == id).first()
user_by_id(id) == First(users, LAMBDA u : u = id)

\* require_roles(*roles): 403 when the caller's role is not permitted
require_roles(current_user, roles) == role(current_user) \in roles

\* the optional ledger anchor (blockchain_client): connected and returning a
\* transaction hash, or raising / not connected / no deployer key
LedgerOutcomes == {"ok", "raises"}
TxHash(ledger) == IF ledger = "ok" THEN Some("0xtx") ELSE None

AuditLog(actor_id, target_user_id, event_type, tx_hash, details) ==
  [actor_id |-> actor_id, target_user_id |-> target_user_id,
   event_type |-> event_type, tx_hash |-> tx_hash, details |-> details,
   created_at |-> now]

\* a session that overwrites the newest audit row instead of inserting
db_merge(entry) ==
  IF audit = <<>> THEN <<entry>>
  ELSE [audit EXCEPT ![Len(audit)] = entry]

\* db.add(AuditLog(...)): the row is inserted at the commit
db_add(entry) == Append(audit, entry)

\* lines 77-82: the row of a new request
ConsentRecord(user_id, bank_id) ==
  [user_id |-> user_id, bank_id |-> bank_id, status |-> "pending",
   tx_hash |-> None, requested_at |-> now, granted_at |-> None,
   revoked_at |-> None, signature |-> None]

\* What a handler does with the database and what it answers.  An
\* HTTPException raised before anything was added to the session leaves the
\* tables as they are: get_db closes the session without a commit.
Result(status, detail, payload, c, k, a, st) ==
  [status |-> status, detail |-> detail, payload |-> payload,
   consents |-> c, kyc_records |-> k, audit |-> a, store |-> st]

HTTPException(status, detail) ==
  Result(status, detail, <<>>, consents, kyc_records, audit, store)

\* a ledger call with no try/except around it: its exception ends the request
\* before the commit
unanchored_fails(ledger, r) ==
  IF ledger = "raises" THEN HTTPException(500, "Internal Server Error") ELSE r

\* the ledger call sits in try/except (consent.py 88-92, 170-174, 233-237,
\* kyc.py 98-107): whatever its outcome the handler goes on to its commit
anchored(ledger, r) == r

----------------------------------------------------------------------------
(* POST /consent/request-access *)
\* a read of a DateTime column: the column is declared without timezone
\* (database.py 89) and the stored value comes back without its tzinfo
DateTimeColumnAware == FALSE

\* a < b of two datetimes: Python raises TypeError when one has a tzinfo and
\* the other has none
datetime_lt(a, a_aware, b, b_aware) ==
  IF a_aware # b_aware THEN "TypeError"
  ELSE IF a < b THEN "True" ELSE "False"

request_access(current_user, user_wallet_address, ledger) ==
  LET target == First(users, LAMBDA u :
                  wallet_address(u) = user_wallet_address /\ role(u) = "user")
      target_user == users[target[1]]
      kyc == First(kyc_records, LAMBDA k : k.user_id = target_user)
      existing == First(consents, LAMBDA c :
                    /\ c.user_id = target_user
                    /\ c.bank_id = current_user
                    /\ c.status \in Live)
      tx_hash == TxHash(ledger)
      \* line 62: kyc.expires_at < datetime.now(timezone.utc)
      expired == datetime_lt(kyc_records[kyc[1]].expires_at[1],
                             DateTimeColumnAware, now, TRUE)
  IN
  IF ~require_roles(current_user, {"bank"})
  THEN HTTPException(403, "role not authorised")
  ELSE IF target = None
  THEN HTTPException(404, "User wallet address not found")
  ELSE IF kyc = None
  THEN HTTPException(404, "Target user has no KYC record")
  ELSE IF /\ kyc_records[kyc[1]].expires_at # None
          /\ expired = "TypeError"
  THEN \* line 62 raises; the session is closed without a commit
       HTTPException(500, "Internal Server Error")
  ELSE IF /\ kyc_records[kyc[1]].expires_at # None
          /\ expired = "True"
  THEN HTTPException(410, "Target user's KYC has expired")
  ELSE IF existing # None
  THEN HTTPException(409, "Access request already exists")
  ELSE anchored(ledger, Result(202, "Access request submitted", <<Len(consents) + 1>>,
         Append(consents, ConsentRecord(target_user, current_user)),
         kyc_records,
         db_add(AuditLog(current_user, Some(target_user),
                  "access_requested", tx_hash, <<current_user>>)),
         store))

----------------------------------------------------------------------------
(* POST /consent/grant-access *)
\* values a client can put in the bank_id field: the primary key of a
\* consent row, of a user row, or of nothing
ConsentIds == {<<"consent", i>> : i \in 1..MaxConsents}
IdInputs == ConsentIds \cup {<<"user", u>> : u \in Banks \cup {"nobody"}}

\* db.query(ConsentRecord).filter(ConsentRecord.id == id).first()
consent_by_id(id) ==
  IF id[1] = "consent" /\ id[2] \in Idx(consents) THEN Some(id[2]) ELSE None

\* db.query(User).filter(User.id == id).first()
bank_by_id(id) ==
  IF id[1] = "user" THEN user_by_id(id[2]) ELSE None

\* Step 2 of grant_access: by primary key, else the caller's pending row
\* for the bank with that user id
grant_lookup(current_user, bank_id) ==
  LET by_id == consent_by_id(bank_id)
      bank == bank_by_id(bank_id)
  IN IF by_id # None THEN by_id
     ELSE IF bank = None THEN None
     ELSE First(consents, LAMBDA c :
            /\ c.user_id = current_user
            /\ c.bank_id = users[bank[1]]
            /\ c.status = "pending")

\* a row that passes for the caller's whoever its subject is
owned_by_anyone(i, current_user) == TRUE

\* line 159: consent.user_id == current_user.id
owned_by(i, current_user) == consents[i].user_id = current_user

grant_access(current_user, bank_id, consent_message, signature, ledger) ==
  LET sig_valid == verify_eth_signature(consent_message, signature,
                                        wallet_address(current_user))
      consent == grant_lookup(current_user, bank_id)
      i == consent[1]
      tx_hash == TxHash(ledger)
      granted == [consents[i] EXCEPT
                    !.status = "granted",
                    !.granted_at = Some(now),
                    !.signature = Some(signature),
                    !.tx_hash = IF tx_hash # None THEN tx_hash ELSE @]
  IN
  IF ~require_roles(current_user, {"user"})
  THEN HTTPException(403, "role not authorised")
  ELSE IF ~sig_valid
  THEN HTTPException(403, "Invalid digital signature")
  ELSE IF consent_by_id(bank_id) = None /\ bank_by_id(bank_id) = None
  THEN HTTPException(404, "Bank not found")
  ELSE IF consent = None
  THEN HTTPException(404, "No pending access request found")
  ELSE IF ~owned_by(i, current_user)
  THEN HTTPException(403, "You can only grant consent for your own KYC")
  ELSE \* committed; the returned row then fails ConsentStatusOut, which
       \* requires a consent_id attribute that the row does not have
       anchored(ledger, Result(500, "ResponseValidationError", <<i>>,
         [consents EXCEPT ![i] = granted],
         kyc_records,
         db_add(AuditLog(current_user, Some(current_user),
                  "consent_granted", tx_hash, <<consents[i].bank_id>>)),
         store))

----------------------------------------------------------------------------
(* POST /consent/revoke-access *)
\* a lookup that also accepts a pending row
revoke_lookup_live(current_user, bank) ==
  First(consents, LAMBDA c :
    /\ c.user_id = current_user
    /\ c.bank_id = bank
    /\ c.status \in Live)

\* the caller's granted row for the bank
revoke_lookup(current_user, bank) ==
  First(consents, LAMBDA c :
    /\ c.user_id = current_user
    /\ c.bank_id = bank
    /\ c.status = "granted")

revoke_access(current_user, bank_id, consent_message, signature, ledger) ==
  LET sig_valid == verify_eth_signature(consent_message, signature,
                                        wallet_address(current_user))
      bank == bank_by_id(bank_id)
      consent == revoke_lookup(current_user, users[bank[1]])
      i == consent[1]
      tx_hash == TxHash(ledger)
      revoked == [consents[i] EXCEPT
                    !.status = "revoked",
                    !.revoked_at = Some(now),
                    !.tx_hash = IF tx_hash # None THEN tx_hash ELSE @]
  IN
  IF ~require_roles(current_user, {"user"})
  THEN HTTPException(403, "role not authorised")
  ELSE IF ~sig_valid
  THEN HTTPException(403, "Invalid digital signature")
  ELSE IF bank = None
  THEN HTTPException(404, "Bank not found")
  ELSE IF consent = None
  THEN HTTPException(404, "No active consent to revoke")
  ELSE anchored(ledger, Result(200, "Consent revoked successfully", <<i>>,
         [consents EXCEPT ![i] = revoked],
         kyc_records,
         db_add(AuditLog(current_user, Some(current_user),
                  "consent_revoked", tx_hash, <<users[bank[1]]>>)),
         store))

----------------------------------------------------------------------------
(* Settings (app/core/config.py): the fields that reach the model.  The    *)
(* hex string of the key is the sequence of the values of its digits.       *)
Settings(AES_ENCRYPTION_KEY) == [AES_ENCRYPTION_KEY |-> AES_ENCRYPTION_KEY]

\* a key as secrets.token_hex(n / 2) prints it: n hex digits
HexKey(n) == [i \in 1..n |-> (5 * i + 3) % 16]

----------------------------------------------------------------------------
(* AES-256-GCM (app/core/security.py, lines 58-115).  A byte is 0..255, a   *)
(* bytes object a sequence of bytes, a str a sequence of character codes.   *)
(* A call returns a value or raises: Return(v) or Raise(exception).         *)
(*                                                                         *)
(* The AES rounds are replaced by a cipher of the same shape.  Byte i of    *)
(* the ciphertext is the plaintext byte moved by a key stream of the key,   *)
(* the nonce and i (counter mode); the 16-byte tag is a keyed checksum of   *)
(* the length, the nonce and the ciphertext in which every byte has its     *)
(* own place, so that a change of one byte of either always changes the     *)
(* tag, as GHASH does.                                                      *)
KeyBytes == 32
NonceBytes == 12
TagBytes == 16

Return(v) == [raised |-> "", value |-> v]
Raise(exception) == [raised |-> exception, value |-> <<>>]

Min(a, b) == IF a < b THEN a ELSE b
\* s[a:b] of Python for 0 <= a, as a sequence
Slice(s, a, b) == SubSeq(s, a + 1, Min(b, Len(s)))

\* bytes.fromhex over a string of hex digits, each given by its value
bytes_fromhex(s) ==
  IF Len(s) % 2 # 0 THEN Raise("ValueError")
  ELSE Return([i \in 1..(Len(s) \div 2) |-> 16 * s[2 * i - 1] + s[2 * i]])

\* lines 59-68
_get_aes_key ==
  LET raw == bytes_fromhex(settings.AES_ENCRYPTION_KEY)
  IN IF raw.raised # "" THEN raw
     ELSE IF Len(raw.value) # KeyBytes THEN Raise("ValueError")
     ELSE raw

keystream(key, nonce, i) ==
  (key[((i - 1) % Len(key)) + 1] + nonce[((i - 1) % Len(nonce)) + 1] + i) % 256

RECURSIVE weighted(_, _)
weighted(s, n) == IF n = 0 THEN 0 ELSE n * s[n] + weighted(s, n - 1)

\* the sum of the bytes of ct at the places k, k + 13, k + 26, ...
RECURSIVE folded(_, _)
folded(ct, k) ==
  IF k > Len(ct) THEN 0 ELSE ct[k] + folded(ct, k + (TagBytes - 3))

tag_of(key, nonce, ct) ==
  LET w == weighted(nonce, Len(nonce))
      raw == [k \in 1..TagBytes |->
                IF k = 1 THEN Len(ct)
                ELSE IF k = 2 THEN w \div 256
                ELSE IF k = 3 THEN w
                ELSE folded(ct, k - 3)]
  IN [k \in 1..TagBytes |-> (raw[k] + key[k] + key[k + TagBytes]) % 256]

\* AESGCM(key).encrypt(nonce, data, None): ciphertext followed by the tag
AESGCM_encrypt(key, nonce, data) ==
  LET ct == [i \in 1..Len(data) |-> (data[i] + keystream(key, nonce, i)) % 256]
  IN ct \o tag_of(key, nonce, ct)

\* AESGCM(key).decrypt(nonce, data, None)
AESGCM_decrypt(key, nonce, data) ==
  LET n == Len(data) - TagBytes
      ct == SubSeq(data, 1, n)
      tag == SubSeq(data, n + 1, Len(data))
  IN IF Len(nonce) < 8 \/ Len(nonce) > 128 THEN Raise("ValueError")
     ELSE IF n < 0 THEN Raise("InvalidTag")
     ELSE IF tag # tag_of(key, nonce, ct) THEN Raise("InvalidTag")
     ELSE Return([i \in 1..n |->
                    (ct[i] + 256 - keystream(key, nonce, i)) % 256])

\* lines 71-86; nonce is the value os.urandom(12) gave to this call
encrypt_document(plaintext, nonce) ==
  LET key == _get_aes_key
  IN IF key.raised # "" THEN key
     ELSE Return(<<nonce, AESGCM_encrypt(key.value, nonce, plaintext)>>)

\* lines 89-96
decrypt_document(nonce, ciphertext) ==
  LET key == _get_aes_key
  IN IF key.raised # "" THEN key
     ELSE AESGCM_decrypt(key.value, nonce, ciphertext)

\* the base64 alphabet: character code of a 6-bit value, and back (64 for a
\* character outside the alphabet)
table_b2a_base64(v) ==
  IF v < 26 THEN 65 + v
  ELSE IF v < 52 THEN 97 + (v - 26)
  ELSE IF v < 62 THEN 48 + (v - 52)
  ELSE IF v = 62 THEN 43 ELSE 47

table_a2b_base64(c) ==
  IF c >= 65 /\ c <= 90 THEN c - 65
  ELSE IF c >= 97 /\ c <= 122 THEN c - 97 + 26
  ELSE IF c >= 48 /\ c <= 57 THEN c - 48 + 52
  ELSE IF c = 43 THEN 62
  ELSE IF c = 47 THEN 63
  ELSE 64

BASE64_PAD == 61

\* base64.b64encode(s).decode()
RECURSIVE b64encode(_)
b64encode(s) ==
  IF Len(s) = 0 THEN <<>>
  ELSE IF Len(s) = 1
  THEN <<table_b2a_base64(s[1] \div 4), table_b2a_base64((s[1] % 4) * 16),
         BASE64_PAD, BASE64_PAD>>
  ELSE IF Len(s) = 2
  THEN <<table_b2a_base64(s[1] \div 4),
         table_b2a_base64((s[1] % 4) * 16 + s[2] \div 16),
         table_b2a_base64((s[2] % 16) * 4), BASE64_PAD>>
  ELSE <<table_b2a_base64(s[1] \div 4),
         table_b2a_base64((s[1] % 4) * 16 + s[2] \div 16),
         table_b2a_base64((s[2] % 16) * 4 + s[3] \div 64),
         table_b2a_base64(s[3] % 64)>> \o b64encode(SubSeq(s, 4, Len(s)))

\* binascii.a2b_base64 without strict mode.  Characters outside the alphabet
\* are skipped; quad_pos at a character is the number of data characters
\* before it modulo 4; a pad at quad_pos >= 2 that, with the pads since the
\* last data character, completes the quad ends the data; the bits left
\* over in the last data character are dropped; data that ends inside a
\* quad without that pad is an error
a2b_base64(s) ==
  LET places == [i \in 1..Len(s) |-> i]
      data == SelectSeq(places, LAMBDA i : table_a2b_base64(s[i]) < 64)
      pad == SelectSeq(places, LAMBDA i : s[i] = BASE64_PAD)
      before(p) == Cardinality({k \in 1..Len(data) : data[k] < p})
      last_data(p) == IF before(p) = 0 THEN 0 ELSE data[before(p)]
      pads(p) == Cardinality({k \in 1..Len(pad) :
                               pad[k] > last_data(p) /\ pad[k] <= p})
      done == {k \in 1..Len(pad) :
                 /\ (before(pad[k]) % 4) >= 2
                 /\ (before(pad[k]) % 4) + pads(pad[k]) >= 4}
      m == IF done = {} THEN Len(data)
           ELSE before(pad[CHOOSE k \in done : \A j \in done : k <= j])
      this_ch(t) == table_a2b_base64(s[data[t]])
      \* byte b is made of data characters t - 1 and t
      byte(b) ==
        LET t == 4 * ((b - 1) \div 3) + ((b - 1) % 3) + 2
        IN IF t % 4 = 2 THEN this_ch(t - 1) * 4 + this_ch(t) \div 16
           ELSE IF t % 4 = 3
           THEN (this_ch(t - 1) % 16) * 16 + this_ch(t) \div 4
           ELSE (this_ch(t - 1) % 4) * 64 + this_ch(t)
  IN IF done = {} /\ (m % 4) # 0 THEN Raise("binascii.Error")
     ELSE Return([b \in 1..((3 * m) \div 4) |-> byte(b)])

\* base64.b64decode(s) of a str: only ASCII characters are taken
b64decode(s) ==
  IF \E i \in 1..Len(s) : s[i] >= 128 THEN Raise("ValueError")
  ELSE a2b_base64(s)

\* lines 99-106
encrypt_to_b64(plaintext, nonce) ==
  LET sealed == encrypt_document(plaintext, nonce)
  IN IF sealed.raised # "" THEN sealed
     ELSE Return(b64encode(sealed.value[1] \o sealed.value[2]))

\* a split of the decoded blob after the first 16 bytes
decrypt_from_b64_split_at_tag(b64_blob) ==
  LET combined == b64decode(b64_blob)
  IN IF combined.raised # "" THEN combined
     ELSE decrypt_document(Slice(combined.value, 0, TagBytes),
                           Slice(combined.value, TagBytes, Len(combined.value)))

\* lines 109-115
decrypt_from_b64(b64_blob) ==
  LET combined == b64decode(b64_blob)
  IN IF combined.raised # "" THEN combined
     ELSE decrypt_document(Slice(combined.value, 0, NonceBytes),
                           Slice(combined.value, NonceBytes, Len(combined.value)))

----------------------------------------------------------------------------
(* content store (app/core/ipfs.py) as the handlers use it: blob n of the   *)
(* sequence has CID n; a blob lives on the IPFS node ("net") or in the      *)
(* local mock directory, and is kept here by the payload it was made from   *)
(* and by whether decrypt_from_b64 still opens it.  The bytes of the blobs  *)
(* are those of IPFSClient_upload_encrypted below.                          *)
Docs == {"docA"}
NetOutcomes == {"up", "down"}

\* IPFSClient.upload_encrypted: the node answers 200 with a hash, or the
\* blob is written to the local fallback directory
upload_encrypted(plaintext, net) ==
  [kind |-> IF net = "up" THEN "net" ELSE "mock", plaintext |-> plaintext,
   opens |-> TRUE]

\* the node cannot be asked for the blob and no local file has its name
unavailable(cid, net) == store[cid].kind = "net" /\ net = "down"

\* str(e) of the ValueError of _get_aes_key (line 67)
KeyMessage == "AES_ENCRYPTION_KEY must be exactly 32 bytes (64 hex chars)"

\* the exception of _get_aes_key, "" when it returns the key
key_error == _get_aes_key.raised

\* IPFSClient.download_decrypted: <<plaintext>>, or <<>> when it raises
\* (RuntimeError of line 122, or ValueError of _get_aes_key or InvalidTag of
\* decrypt_from_b64, line 126)
download_decrypted(cid, net) ==
  IF unavailable(cid, net) THEN None
  ELSE IF key_error # "" THEN None
  ELSE IF ~store[cid].opens THEN None
  ELSE Some(store[cid].plaintext)

\* str(e) of the exception download_decrypted raises
str_e(cid, net) ==
  IF unavailable(cid, net)
  THEN "IPFS unavailable and no local fallback found"
  ELSE IF key_error # ""
  THEN KeyMessage
  ELSE ""

sha256_hex(data) == <<"sha256", data>>

KYCRecord(user_id, ipfs_cid, tx_hash, expires_at, fraud_score) ==
  [user_id |-> user_id, ipfs_cid |-> ipfs_cid, kyc_hash |-> sha256_hex(ipfs_cid),
   tx_hash |-> tx_hash, is_verified |-> FALSE, uploaded_at |-> now,
   expires_at |-> expires_at, fraud_score |-> Some(fraud_score),
   liveness_score |-> None, liveness_verified |-> FALSE]

----------------------------------------------------------------------------
(* IPFSClient (app/core/ipfs.py) with the blobs it writes.  A file of the   *)
(* store lies on the IPFS node ("net") or in the directory data/ipfs_mock   *)
(* ("mock"); it has the location it is read by, the bytes written, and the  *)
(* payload of the upload that wrote it.  The node answers a request with    *)
(* 200 when it can ("answers"), with another status ("refuses"), or the     *)
(* connection fails or times out ("unreachable").                           *)
NodeOutcomes == {"answers", "refuses", "unreachable"}

\* hashlib.sha256(data).hexdigest()[:16]
sha256_hexdigest_16(data) == <<"sha256", 16, data>>

\* the Hash of the node's answer to /api/v0/add: the name of the content
node_hash(data) == <<"Qm", sha256_hex(data)>>

\* str(cid).startswith("mock-")
startswith_mock(cid) == cid[1] = "mock-"

file_at(kind, cid) == First(store, LAMBDA f : f.kind = kind /\ f.cid = cid)

\* a file written at a location: a file already there is replaced
write_bytes(kind, cid, bytes, plaintext) ==
  LET file == [kind |-> kind, cid |-> cid, bytes |-> bytes,
               uploaded |-> plaintext]
      there == file_at(kind, cid)
  IN IF there = None THEN Append(store, file)
     ELSE [store EXCEPT ![there[1]] = file]

\* a fallback that names the location and writes no file
write_nothing(kind, cid, bytes, plaintext) == store

\* lines 82-87
write_fallback(kind, cid, bytes, plaintext) ==
  write_bytes(kind, cid, bytes, plaintext)

\* lines 44-89: the location and the store after the call
IPFSClient_upload_encrypted(plaintext_bytes, nonce, node) ==
  LET encrypted_b64 == encrypt_to_b64(plaintext_bytes, nonce)
      ciphertext_bytes == encrypted_b64.value
      cid == <<"mock-", sha256_hexdigest_16(ciphertext_bytes)>>
  IN IF encrypted_b64.raised # "" THEN encrypted_b64
     ELSE IF node = "answers"
     THEN Return([cid |-> node_hash(ciphertext_bytes),
                  store |-> write_bytes("net", node_hash(ciphertext_bytes),
                                        ciphertext_bytes, plaintext_bytes)])
     ELSE Return([cid |-> cid,
                  store |-> write_fallback("mock", cid, ciphertext_bytes,
                                           plaintext_bytes)])

\* lines 91-126
IPFSClient_download_decrypted(cid, node) ==
  LET local == file_at("mock", cid)
      remote == file_at("net", cid)
  IN IF startswith_mock(cid)
     THEN IF local = None
          THEN Raise("RuntimeError: Local mock file not found")
          ELSE decrypt_from_b64(store[local[1]].bytes)
     ELSE IF node = "answers" /\ remote # None
     THEN decrypt_from_b64(store[remote[1]].bytes)
     ELSE IF local # None
     THEN decrypt_from_b64(store[local[1]].bytes)
     ELSE Raise("RuntimeError: IPFS unavailable and no local fallback found")

----------------------------------------------------------------------------
(* POST /kyc/upload *)
FraudThreshold == 80

\* a gate that lets the threshold score itself through
flagged_above(fraud_score) == fraud_score > FraudThreshold

\* line 73: the document is flagged at or above the threshold
flagged(fraud_score) == fraud_score >= FraudThreshold

\* an upload that leaves the earlier rows in the table
delete_nothing(user_id) == kyc_records

\* line 119: db.query(KYCRecord).filter(KYCRecord.user_id == id).delete()
delete_records_of(user_id) ==
  SelectSeq(kyc_records, LAMBDA k : k.user_id # user_id)

upload_kyc(current_user, file_bytes, validity_days, fraud_score, net, ledger) ==
  LET ipfs_cid == Len(store) + 1
      tx_hash == TxHash(ledger)
      expires_at == IF validity_days > 0 THEN Some(now + validity_days)
                    ELSE None
      kept == delete_records_of(current_user)
  IN
  IF ~require_roles(current_user, {"user"})
  THEN HTTPException(403, "role not authorised")
  ELSE IF flagged(fraud_score)
  THEN HTTPException(422, "Document flagged by fraud detection")
  ELSE IF key_error # ""
  THEN \* lines 79-89: encrypt_document raised inside upload_encrypted; the
       \* detail ends with str(e), kept as the payload
       Result(502, "IPFS upload failed",
         <<KeyMessage>>,
         consents, kyc_records, audit, store)
  ELSE anchored(ledger, Result(200, "KYC document uploaded", <<ipfs_cid>>,
         consents,
         Append(kept, KYCRecord(current_user, ipfs_cid, tx_hash,
                                expires_at, fraud_score)),
         db_add(AuditLog(current_user, Some(current_user),
                  "kyc_registered", tx_hash, <<ipfs_cid>>)),
         Append(store, upload_encrypted(file_bytes, net))))

----------------------------------------------------------------------------
(* GET /kyc/view-document/{consent_id} *)
bank_view_document(current_user, consent_id, net) ==
  LET by_id == consent_by_id(consent_id)
      found == /\ by_id # None
               /\ consents[by_id[1]].bank_id = current_user
               /\ consents[by_id[1]].status = "granted"
      row == consents[by_id[1]]
      kyc == First(kyc_records, LAMBDA k : k.user_id = row.user_id)
      plaintext_bytes == download_decrypted(kyc_records[kyc[1]].ipfs_cid, net)
  IN
  IF ~require_roles(current_user, {"bank"})
  THEN HTTPException(403, "role not authorised")
  ELSE IF ~found
  THEN HTTPException(403, "No active consent. Cannot view document.")
  ELSE IF kyc = None
  THEN HTTPException(404, "No KYC document found.")
  ELSE IF plaintext_bytes = None
  THEN \* the detail ends with str(e), kept as the payload
       Result(502, "Failed to retrieve document from IPFS",
         <<str_e(kyc_records[kyc[1]].ipfs_cid, net)>>,
         consents, kyc_records, audit, store)
  ELSE Result(200, "document", <<by_id[1], plaintext_bytes[1]>>,
         consents, kyc_records,
         db_add(AuditLog(current_user, Some(row.user_id),
                  "document_accessed", None, <<by_id[1]>>)),
         store)

----------------------------------------------------------------------------
(* GET /kyc/identify: the subject's own document, decrypted and analysed *)
identify_document(current_user, net) ==
  LET kyc == First(kyc_records, LAMBDA k : k.user_id = current_user)
      plaintext_bytes == download_decrypted(kyc_records[kyc[1]].ipfs_cid, net)
  IN
  IF ~require_roles(current_user, {"user"})
  THEN HTTPException(403, "role not authorised")
  ELSE IF kyc = None
  THEN HTTPException(404, "No KYC document found. Please upload first.")
  ELSE IF plaintext_bytes = None
  THEN Result(502, "Could not retrieve document",
         <<str_e(kyc_records[kyc[1]].ipfs_cid, net)>>,
         consents, kyc_records, audit, store)
  ELSE \* the analysis and the thumbnail of the decrypted image; nothing is
       \* added to the session
       Result(200, "analysis", <<plaintext_bytes[1]>>,
         consents, kyc_records, audit, store)

----------------------------------------------------------------------------
(* POST /kyc/liveness *)
\* verify_liveness(image): (is_valid, score); compare_faces(image, document):
\* (is_match, match_score)
LivenessOutcomes == {<<FALSE, 0>>, <<TRUE, 100>>}
MatchOutcomes == {<<FALSE, 0>>, <<TRUE, 100>>}

MatchThreshold == 35
LivenessThreshold == 70
AutoVerifyFraud == 30

\* the scores of verify_liveness and compare_faces lie in 0..MaxScore
MaxScore == 100

\* line 198 is computed in double precision: 0.4 and 0.6 are not exact, and
\* for these pairs (liveness_score, match_score) the rounded sum lies just
\* below the integer that 0.4 l + 0.6 m is
FloatShort ==
  {<<1, 6>>, <<1, 31>>, <<1, 36>>, <<1, 41>>, <<1, 46>>, <<1, 51>>, <<1, 96>>,
   <<2, 12>>, <<2, 57>>, <<2, 62>>, <<2, 67>>, <<2, 72>>, <<2, 77>>, <<2, 82>>,
   <<2, 87>>, <<2, 92>>, <<2, 97>>, <<3, 48>>, <<4, 24>>, <<6, 96>>, <<7, 57>>,
   <<7, 62>>, <<7, 67>>, <<7, 72>>, <<7, 77>>, <<7, 82>>, <<7, 87>>, <<7, 92>>,
   <<7, 97>>, <<8, 48>>, <<11, 96>>, <<16, 96>>}

\* an aggregate that is the liveness score alone
aggregate_unweighted(liveness_score, match_score) == liveness_score

\* line 198: int((liveness_score * 0.4) + (match_score * 0.6))
aggregate(liveness_score, match_score) ==
  LET exact == (4 * liveness_score + 6 * match_score) \div 10
  IN IF <<liveness_score, match_score>> \in FloatShort THEN exact - 1 ELSE exact

\* a promotion that does not look at the aggregate score
auto_verify_any_score(final_success, aggregate_score, fraud_score) ==
  /\ final_success
  /\ fraud_score # None
  /\ fraud_score[1] < AutoVerifyFraud

\* line 205
auto_verify(final_success, aggregate_score, fraud_score) ==
  /\ final_success
  /\ aggregate_score > LivenessThreshold
  /\ fraud_score # None
  /\ fraud_score[1] < AutoVerifyFraud

check_liveness(current_user, live, match, net) ==
  LET record == First(kyc_records, LAMBDA k : k.user_id = current_user)
      i == record[1]
      id_doc_bytes == download_decrypted(kyc_records[i].ipfs_cid, net)
      compared == record # None /\ id_doc_bytes # None
      match_success == IF compared THEN match[1] ELSE FALSE
      match_score == IF compared THEN match[2] ELSE 0
      aggregate_score == aggregate(live[2], match_score)
      final_success ==
        live[1] /\ (IF match_score > 0 THEN match_score > MatchThreshold ELSE TRUE)
      checked == [kyc_records[i] EXCEPT
                    !.liveness_score = Some(aggregate_score),
                    !.liveness_verified = final_success,
                    !.is_verified =
                      IF auto_verify(final_success, aggregate_score,
                                     kyc_records[i].fraud_score)
                      THEN TRUE ELSE @]
  IN
  IF ~require_roles(current_user, {"user"})
  THEN HTTPException(403, "role not authorised")
  ELSE Result(200, "liveness", <<final_success, aggregate_score>>,
         consents,
         IF record = None THEN kyc_records
         ELSE [kyc_records EXCEPT ![i] = checked],
         db_add(AuditLog(current_user, Some(current_user),
                  "liveness_check", None,
                  <<aggregate_score, live[1], match_success>>)),
         store)

----------------------------------------------------------------------------
(* verifier decisions: POST /kyc/verify, /kyc/reject, /kyc/request-more-docs *)
\* a lookup that takes the bank's record whatever its status
decision_lookup_any_status(current_user, consent_id) ==
  LET by_id == consent_by_id(consent_id)
  IN IF by_id # None /\ consents[by_id[1]].bank_id = current_user
     THEN by_id ELSE None

\* the row with this id, of this bank, in status granted
decision_lookup(current_user, consent_id) ==
  LET by_id == consent_by_id(consent_id)
  IN IF /\ by_id # None
        /\ consents[by_id[1]].bank_id = current_user
        /\ consents[by_id[1]].status = "granted"
     THEN by_id ELSE None

\* bank_decision, decided_at, rejection_reason, doc_request_message and
\* doc_request_at are assigned on the loaded row, but ConsentRecord maps no
\* such columns: the assignments are not part of the UPDATE and are gone
\* with the session.  What the commit stores is is_verified and the audit row.
bank_verify_kyc(current_user, consent_id) ==
  LET consent == decision_lookup(current_user, consent_id)
      row == consents[consent[1]]
      kyc == First(kyc_records, LAMBDA k : k.user_id = row.user_id)
  IN
  IF ~require_roles(current_user, {"bank"})
  THEN HTTPException(403, "role not authorised")
  ELSE IF consent = None
  THEN HTTPException(403, "No active consent for this user. Cannot verify.")
  ELSE IF kyc = None
  THEN HTTPException(404, "No KYC record found for this user.")
  ELSE Result(200, "KYC accepted and verified.", <<consent[1]>>,
         consents,
         [kyc_records EXCEPT ![kyc[1]].is_verified = TRUE],
         db_add(AuditLog(current_user, Some(row.user_id),
                  "kyc_verified", None, <<"accepted", consent[1]>>)),
         store)

bank_reject_kyc(current_user, consent_id, reason) ==
  LET consent == decision_lookup(current_user, consent_id)
      row == consents[consent[1]]
  IN
  IF ~require_roles(current_user, {"bank"})
  THEN HTTPException(403, "role not authorised")
  ELSE IF consent = None
  THEN HTTPException(403, "No active consent for this user. Cannot reject.")
  ELSE Result(200, "KYC rejected.", <<consent[1]>>,
         consents, kyc_records,
         db_add(AuditLog(current_user, Some(row.user_id),
                  "document_accessed", None, <<"rejected", reason>>)),
         store)

bank_request_more_docs(current_user, consent_id, message) ==
  LET consent == decision_lookup(current_user, consent_id)
      row == consents[consent[1]]
  IN
  IF ~require_roles(current_user, {"bank"})
  THEN HTTPException(403, "role not authorised")
  ELSE IF consent = None
  THEN HTTPException(403, "No active consent for this user.")
  ELSE Result(200, "Document request sent to user.", <<consent[1]>>,
         consents, kyc_records,
         db_add(AuditLog(current_user, Some(row.user_id),
                  "document_accessed", None, <<"more_docs", message>>)),
         store)

----------------------------------------------------------------------------
(* GET /consent/pending *)
\* the JSON body of a reply: null, or a list of items
json_null == <<"null">>
json_list(result) == <<"list", result>>

get_pending_requests(current_user) ==
  LET \* lines 259-262
      requests == SelectSeq([i \in Idx(consents) |-> i], LAMBDA i :
                    /\ consents[i].user_id = current_user
                    /\ consents[i].status = "pending")
      \* lines 264-272
      result == [j \in Idx(requests) |->
                  [consent_id |-> <<"consent", requests[j]>>,
                   bank |-> consents[requests[j]].bank_id,
                   requested_at |-> consents[requests[j]].requested_at]]
  IN
  IF ~require_roles(current_user, {"user"})
  THEN HTTPException(403, "role not authorised")
  ELSE \* the function ends after the loop, without a return statement, and
       \* so returns None: result is built and dropped
       Result(200, "", json_null, consents, kyc_records, audit, store)

----------------------------------------------------------------------------
(* GET /consent/view/{user_wallet_address} *)
\* database.py 45-52
AuditEventType ==
  {"kyc_registered", "kyc_verified", "access_requested", "consent_granted",
   "consent_revoked", "document_accessed", "liveness_check"}

\* AuditEventType.<name>: the member, or AttributeError
AuditEventType_getattr(name) ==
  IF name \in AuditEventType THEN Return(name) ELSE Raise("AttributeError")

\* the columns of KYCRecord (database.py 77-94) the reply reads
KYCRecord_columns ==
  {"user_id", "ipfs_cid", "kyc_hash", "tx_hash", "doc_type", "is_verified",
   "uploaded_at", "expires_at", "fraud_score", "liveness_score",
   "liveness_verified"}

view_user_kyc(current_user, user_wallet_address) ==
  LET target == First(users, LAMBDA u :
                  wallet_address(u) = user_wallet_address /\ role(u) = "user")
      target_user == users[target[1]]
      consent == First(consents, LAMBDA c :
                   /\ c.user_id = target_user
                   /\ c.bank_id = current_user
                   /\ c.status = "granted")
      kyc == First(kyc_records, LAMBDA k : k.user_id = target_user)
      \* line 339
      event_type == AuditEventType_getattr("access_history")
      \* lines 351-355: kyc.status, kyc.id_type, kyc.id_number, kyc.updated_at
      read == {"status", "id_type", "id_number", "liveness_score",
               "updated_at", "ipfs_cid"}
      logged == db_add(AuditLog(current_user, Some(target_user),
                         event_type.value, None, <<>>))
  IN
  IF ~require_roles(current_user, {"bank"})
  THEN HTTPException(403, "role not authorised")
  ELSE IF target = None
  THEN HTTPException(404, "User wallet address not found")
  ELSE IF consent = None
  THEN HTTPException(403, "Access Denied. User has not granted you active consent.")
  ELSE IF kyc = None
  THEN HTTPException(404, "KYC record not found for this user")
  ELSE IF event_type.raised # ""
  THEN \* raised while the arguments of AuditLog are evaluated: nothing was
       \* added to the session
       Result(500, "Internal Server Error", <<event_type.raised>>,
         consents, kyc_records, audit, store)
  ELSE IF ~(read \subseteq KYCRecord_columns)
  THEN \* raised after db.commit()
       Result(500, "Internal Server Error", <<"AttributeError">>,
         consents, kyc_records, logged, store)
  ELSE Result(200, "", json_list(<<kyc_records[kyc[1]]>>),
         consents, kyc_records, logged, store)

----------------------------------------------------------------------------
(* GET /audit/logs *)
\* lines 42-53: what the caller's role lets through
\* a query without the filter of the caller's role
role_filter_none(current_user, row) == TRUE

role_filter(current_user, row) ==
  IF role(current_user) = "validator" THEN TRUE
  ELSE IF role(current_user) = "bank" THEN row.actor_id = current_user
  ELSE \/ row.actor_id = current_user
       \/ row.target_user_id = Some(current_user)

\* line 59, order_by(AuditLog.created_at.desc()): the rows with these
\* indices, newest first
RECURSIVE order_by_desc(_, _)
order_by_desc(table, rows) ==
  IF rows = {} THEN <<>>
  ELSE LET newest == CHOOSE i \in rows :
                       \A j \in rows : table[j].created_at <= table[i].created_at
       IN <<table[newest]>> \o order_by_desc(table, rows \ {newest})

order_by_created_at_desc(rows) == order_by_desc(audit, rows)

\* .offset(skip).limit(limit) on SQLite (database.py 24-27): a negative
\* LIMIT is no limit
offset_limit(rows, skip, limit) ==
  LET last == IF limit < 0 \/ skip + limit > Len(rows) THEN Len(rows)
              ELSE skip + limit
  IN IF skip >= Len(rows) THEN <<>> ELSE SubSeq(rows, skip + 1, last)

\* lines 40-64 on the rows of a table audit_logs: total and logs
AuditLogList(table, current_user, skip, limit, event_type) ==
  LET query == {i \in Idx(table) :
                  /\ role_filter(current_user, table[i])
                  /\ event_type # None => table[i].event_type = event_type[1]}
      total == Cardinality(query)
      logs == offset_limit(order_by_desc(table, query), skip, limit)
  IN <<total, logs>>

get_audit_logs(current_user, skip, limit, event_type) ==
  IF ~require_roles(current_user, {"user", "bank", "validator"})
  THEN HTTPException(403, "role not authorised")
  ELSE Result(200, "AuditLogList",
         AuditLogList(audit, current_user, skip, limit, event_type),
         consents, kyc_records, audit, store)

----------------------------------------------------------------------------
(* One request at a time: a client sends a request, the handler runs to    *)
(* its commit or its HTTPException, and the client receives the reply.     *)
Reply(op, caller, r) ==
  [op |-> op, caller |-> caller, status |-> r.status, detail |-> r.detail,
   payload |-> r.payload]

Idle == [op |-> "none", caller |-> "none", status |-> 0, detail |-> "",
         payload |-> <<>>]

\* nothing was committed by the handler
Rejected(r) == r.audit = audit

TxCount(a) == Cardinality({i \in Idx(a) : a[i].tx_hash # None})

StepWithin(op, caller, r, max_store, max_audit) ==
  /\ resp = Idle
  /\ Len(r.consents) <= MaxConsents
  /\ Len(r.store) <= max_store
  /\ Len(r.audit) <= max_audit
  /\ TxCount(r.audit) <= MaxTx
  /\ consents' = r.consents
  /\ kyc_records' = r.kyc_records
  /\ audit' = r.audit
  /\ store' = r.store
  /\ resp' = Reply(op, caller, r)
  /\ now' = IF Rejected(r) THEN now ELSE now + 1
  /\ UNCHANGED <<pc, settings, sessions>>

Step(op, caller, r) == StepWithin(op, caller, r, MaxUploads, MaxAudit)

ReceiveReply ==
  /\ resp # Idle
  /\ resp' = Idle
  /\ UNCHANGED <<consents, kyc_records, audit, store, now, pc, settings, sessions>>

\* request bodies sent by the clients of the model
WalletInputs == {wallet_address(u) : u \in Subjects \cup {"b1"}} \cup {"0xAA01", "0x0000"}
\* u2 is a subject that has not uploaded a document
Uploaders == {"u1"}
ValidityDays == {0, 1}
FraudScores == {10, 80}
Msg(op, bank) == [op |-> op, bank |-> bank, nonce |-> 1]
\* each subject signed one consent message, "GRANT_CONSENT:<b1>:1"; a request
\* carries it as signed, with the bank in the message text altered, or with
\* a signature that is no signature
SignedInputs ==
  {<<Msg("GRANT_CONSENT", "b1"), Sign(k, Msg("GRANT_CONSENT", "b1"))>> : k \in Keys}
  \cup {<<Msg("GRANT_CONSENT", "b2"), Sign(k, Msg("GRANT_CONSENT", "b1"))>> : k \in Keys}
  \cup {<<Msg("GRANT_CONSENT", "b1"), Malformed>>}

UploadKyc ==
  /\ resp = Idle
  /\ \E cu \in Uploaders, d \in Docs, v \in ValidityDays, f \in FraudScores :
    IF Rejected(upload_kyc(cu, d, v, f, "up", "raises"))
    THEN Step("upload_kyc", cu, upload_kyc(cu, d, v, f, "up", "raises"))
    ELSE \E net \in NetOutcomes, ledger \in LedgerOutcomes :
           Step("upload_kyc", cu, upload_kyc(cu, d, v, f, net, ledger))

RequestAccess ==
  /\ resp = Idle
  /\ \E cu \in Banks, w \in WalletInputs :
    IF Rejected(request_access(cu, w, "raises"))
    THEN Step("request_access", cu, request_access(cu, w, "raises"))
    ELSE \E ledger \in LedgerOutcomes :
           Step("request_access", cu, request_access(cu, w, ledger))

GrantAccess ==
  /\ resp = Idle
  /\ \E cu \in Subjects, id \in IdInputs, p \in SignedInputs :
    IF Rejected(grant_access(cu, id, p[1], p[2], "raises"))
    THEN Step("grant_access", cu, grant_access(cu, id, p[1], p[2], "raises"))
    ELSE \E ledger \in LedgerOutcomes :
           Step("grant_access", cu, grant_access(cu, id, p[1], p[2], ledger))

RevokeAccess ==
  /\ resp = Idle
  /\ \E cu \in Subjects, id \in IdInputs, p \in SignedInputs :
    IF Rejected(revoke_access(cu, id, p[1], p[2], "raises"))
    THEN Step("revoke_access", cu, revoke_access(cu, id, p[1], p[2], "raises"))
    ELSE \E ledger \in LedgerOutcomes :
           Step("revoke_access", cu, revoke_access(cu, id, p[1], p[2], ledger))

BankViewDocument ==
  /\ resp = Idle
  /\ \E cu \in Banks, id \in ConsentIds, net \in NetOutcomes :
    Step("bank_view_document", cu, bank_view_document(cu, id, net))

----------------------------------------------------------------------------
(* The vault seen by one subject and the two banks: u1's uploads, liveness  *)
(* checks and own fetches, the banks' requests, fetches and decisions, and  *)
(* u1's genuinely signed grants and revokes; the ledger is not connected    *)
(* and the IPFS node is up.                                                 *)
VaultSubject == "u1"
Reasons == {"blurred"}
DocRequests == {"Please upload an additional document for verification."}
GenuineGrant == <<Msg("GRANT_CONSENT", "b1"),
                  Sign("key_u1", Msg("GRANT_CONSENT", "b1"))>>

VaultStep(op, caller, r) ==
  StepWithin(op, caller, r, MaxUploads, MaxVaultAudit)

VaultUpload ==
  /\ resp = Idle
  /\ \E f \in FraudScores :
       VaultStep("upload_kyc", VaultSubject,
                 upload_kyc(VaultSubject, "docA", 0, f, "up", "raises"))

VaultRequest ==
  /\ resp = Idle
  /\ \E cu \in Banks :
       VaultStep("request_access", cu,
                 request_access(cu, wallet_address(VaultSubject), "raises"))

VaultGrant ==
  /\ resp = Idle
  /\ \E id \in IdInputs :
       VaultStep("grant_access", VaultSubject,
                 grant_access(VaultSubject, id, GenuineGrant[1],
                              GenuineGrant[2], "raises"))

VaultRevoke ==
  /\ resp = Idle
  /\ \E id \in IdInputs :
       VaultStep("revoke_access", VaultSubject,
                 revoke_access(VaultSubject, id, GenuineGrant[1],
                               GenuineGrant[2], "raises"))

VaultView ==
  /\ resp = Idle
  /\ \E cu \in Banks, id \in ConsentIds :
       VaultStep("bank_view_document", cu, bank_view_document(cu, id, "up"))

IdentifyDocument ==
  /\ resp = Idle
  /\ VaultStep("identify_document", VaultSubject,
               identify_document(VaultSubject, "up"))

CheckLiveness ==
  /\ resp = Idle
  /\ \E live \in LivenessOutcomes, match \in MatchOutcomes :
       VaultStep("check_liveness", VaultSubject,
                 check_liveness(VaultSubject, live, match, "up"))

BankVerifyKyc ==
  /\ resp = Idle
  /\ \E cu \in Banks, id \in ConsentIds :
       VaultStep("bank_verify_kyc", cu, bank_verify_kyc(cu, id))

BankRejectKyc ==
  /\ resp = Idle
  /\ \E cu \in Banks, id \in ConsentIds, reason \in Reasons :
       VaultStep("bank_reject_kyc", cu, bank_reject_kyc(cu, id, reason))

BankRequestMoreDocs ==
  /\ resp = Idle
  /\ \E cu \in Banks, id \in ConsentIds, message \in DocRequests :
       VaultStep("bank_request_more_docs", cu,
                 bank_request_more_docs(cu, id, message))

----------------------------------------------------------------------------
(* Re-uploads: each subject replaces its document while bank b1 holds a    *)
(* grant and fetches.                                                       *)
Replacements == {"docA", "docB"}

ReuploadStep(op, caller, r) ==
  StepWithin(op, caller, r, MaxReuploads, MaxAudit)

Reupload ==
  /\ resp = Idle
  /\ \E cu \in Subjects, d \in Replacements, f \in FraudScores :
       ReuploadStep("upload_kyc", cu, upload_kyc(cu, d, 0, f, "up", "raises"))

ReuploadRequest ==
  /\ resp = Idle
  /\ \E s \in Subjects :
       ReuploadStep("request_access", "b1",
                    request_access("b1", wallet_address(s), "raises"))

ReuploadGrant ==
  /\ resp = Idle
  /\ \E k \in Keys, cu \in Subjects :
       ReuploadStep("grant_access", cu,
                    grant_access(cu, <<"user", "b1">>, Msg("GRANT_CONSENT", "b1"),
                                 Sign(k, Msg("GRANT_CONSENT", "b1")), "raises"))

ReuploadView ==
  /\ resp = Idle
  /\ \E id \in ConsentIds :
       ReuploadStep("bank_view_document", "b1",
                    bank_view_document("b1", id, "up"))

----------------------------------------------------------------------------
(* Records of two subjects: u1 and u2 upload, b1 asks for both, and each    *)
(* subject grants and revokes with a message signed by its own key, naming  *)
(* any record id or any bank.                                               *)
\* the key behind a subject's bound address
KeyOf(s) == IF s = "u1" THEN "key_u1" ELSE "key_u2"
OwnMessage == Msg("GRANT_CONSENT", "b1")
OwnSignature(s) == Sign(KeyOf(s), OwnMessage)

OwnGrant ==
  /\ resp = Idle
  /\ \E cu \in Subjects, id \in IdInputs :
       ReuploadStep("grant_access", cu,
                    grant_access(cu, id, OwnMessage, OwnSignature(cu), "raises"))

OwnRevoke ==
  /\ resp = Idle
  /\ \E cu \in Subjects, id \in IdInputs :
       ReuploadStep("revoke_access", cu,
                    revoke_access(cu, id, OwnMessage, OwnSignature(cu), "raises"))

----------------------------------------------------------------------------
(* Server workers sharing the database: request_access running in two      *)
(* workers.  The session reads committed rows (lines 49-74) and its own     *)
(* insert becomes visible at db.commit() (lines 76-103); the table has no   *)
(* uniqueness constraint on (user_id, bank_id).                             *)
Workers == {1, 2}
\* a request in flight in a worker: the handler, the place it has reached,
\* its caller and its local values; NoSession when the worker is free
NoSession == [op |-> "none", stage |-> "none", caller |-> "none", local |-> <<>>]
NoRequest == [stage |-> "none", bank |-> "none", target |-> "none"]

\* lines 49-74: the lookups and the existence check
RequestAccessCheck(w, current_user, user_wallet_address) ==
  LET r == request_access(current_user, user_wallet_address, "raises")
  IN /\ resp = Idle
     /\ pc[w] = NoRequest
     /\ IF Rejected(r)
        THEN /\ resp' = Reply("request_access", current_user, r)
             /\ pc' = pc
        ELSE /\ pc' = [pc EXCEPT ![w] =
                        [stage |-> "checked", bank |-> current_user,
                         target |-> r.consents[Len(r.consents)].user_id]]
             /\ resp' = resp
     /\ UNCHANGED <<consents, kyc_records, audit, store, now, settings, sessions>>

\* lines 76-103: the insert, the ledger call, the audit entry, the commit
RequestAccessCommit(w, ledger) ==
  /\ pc[w].stage = "checked"
  /\ Len(consents) < MaxConsents
  /\ Len(audit) < MaxAudit
  /\ TxCount(audit) + (IF ledger = "ok" THEN 1 ELSE 0) <= MaxTx
  /\ consents' = Append(consents, ConsentRecord(pc[w].target, pc[w].bank))
  /\ audit' = db_add(AuditLog(pc[w].bank, Some(pc[w].target),
                       "access_requested", TxHash(ledger), <<pc[w].bank>>))
  /\ now' = now + 1
  /\ pc' = [pc EXCEPT ![w] = NoRequest]
  /\ resp' = [op |-> "request_access", caller |-> pc[w].bank, status |-> 202,
              detail |-> "Access request submitted",
              payload |-> <<Len(consents) + 1>>]
  /\ UNCHANGED <<kyc_records, store, settings, sessions>>

ConcurrentCheck ==
  \E w \in Workers, cu \in Banks, wa \in WalletInputs :
    RequestAccessCheck(w, cu, wa)

ConcurrentCommit ==
  \E w \in Workers, ledger \in LedgerOutcomes : RequestAccessCommit(w, ledger)

----------------------------------------------------------------------------
(* upload_kyc running in two workers.  The handler awaits the fraud scan    *)
(* and the content store (kyc.py 62-84), where another request may run;     *)
(* lines 119-143 make one database transaction of its session.  The DELETE  *)
(* of line 119 is sent when it is called and opens the write transaction    *)
(* of the SQLite file (database.py 24-27, the only engine the connect_args  *)
(* allow): a second writer waits for the commit of the first, or gives up   *)
(* with OperationalError when its busy timeout passes.                      *)
MaxConcUploads == 3

\* the worker's session holds the write lock of the database file
writing(w) == sessions[w].stage = "deleted"

\* a file on which any number of sessions write at once
write_lock_shared(w) == TRUE

\* no other session is between its first write and its commit
write_lock_free(w) == \A v \in Workers \ {w} : ~writing(v)

\* lines 31-89: the checks, the encryption and the upload of the blob
UploadEncrypt(w, current_user, fraud_score, net) ==
  LET r == upload_kyc(current_user, "docA", 0, fraud_score, net, "raises")
  IN /\ resp = Idle
     /\ sessions[w] = NoSession
     /\ Len(store) < MaxConcUploads
     /\ IF Rejected(r)
        THEN /\ resp' = Reply("upload_kyc", current_user, r)
             /\ UNCHANGED <<store, sessions>>
        ELSE /\ store' = r.store
             /\ sessions' = [sessions EXCEPT ![w] =
                   [op |-> "upload_kyc", stage |-> "encrypted",
                    caller |-> current_user,
                    local |-> <<Len(r.store), fraud_score>>]]
             /\ resp' = resp
     /\ UNCHANGED <<consents, kyc_records, audit, now, pc, settings>>

\* line 119: the rows of the caller that the DELETE finds
UploadDelete(w) ==
  /\ sessions[w].op = "upload_kyc"
  /\ sessions[w].stage = "encrypted"
  /\ write_lock_free(w)
  /\ sessions' = [sessions EXCEPT ![w].stage = "deleted",
       ![w].local = Append(@,
          {kyc_records[i].ipfs_cid : i \in
             {j \in Idx(kyc_records) :
                kyc_records[j].user_id = sessions[w].caller}})]
  /\ UNCHANGED <<consents, kyc_records, audit, store, now, resp, pc, settings>>

\* line 119 while another session writes: the busy timeout passes
UploadBusy(w) ==
  /\ resp = Idle
  /\ sessions[w].op = "upload_kyc"
  /\ sessions[w].stage = "encrypted"
  /\ ~write_lock_free(w)
  /\ resp' = [op |-> "upload_kyc", caller |-> sessions[w].caller,
              status |-> 500, detail |-> "Internal Server Error",
              payload |-> <<"OperationalError">>]
  /\ sessions' = [sessions EXCEPT ![w] = NoSession]
  /\ UNCHANGED <<consents, kyc_records, audit, store, now, pc, settings>>

\* lines 121-143: the new row, the audit entry and the commit
UploadCommit(w) ==
  LET current_user == sessions[w].caller
      ipfs_cid == sessions[w].local[1]
      deleted == sessions[w].local[3]
      kept == SelectSeq(kyc_records, LAMBDA k : k.ipfs_cid \notin deleted)
  IN /\ resp = Idle
     /\ sessions[w].op = "upload_kyc"
     /\ sessions[w].stage = "deleted"
     /\ kyc_records' = Append(kept, KYCRecord(current_user, ipfs_cid, None,
                                None, sessions[w].local[2]))
     /\ audit' = db_add(AuditLog(current_user, Some(current_user),
                          "kyc_registered", None, <<ipfs_cid>>))
     /\ now' = now + 1
     /\ resp' = [op |-> "upload_kyc", caller |-> current_user,
                 status |-> 200, detail |-> "KYC document uploaded",
                 payload |-> <<ipfs_cid>>]
     /\ sessions' = [sessions EXCEPT ![w] = NoSession]
     /\ UNCHANGED <<consents, store, pc, settings>>

ConcurrentUploadEncrypt ==
  \E w \in Workers, cu \in Subjects, f \in FraudScores, net \in NetOutcomes :
    UploadEncrypt(w, cu, f, net)

ConcurrentUploadDelete == \E w \in Workers : UploadDelete(w)

ConcurrentUploadBusy == \E w \in Workers : UploadBusy(w)

ConcurrentUploadCommit == \E w \in Workers : UploadCommit(w)

----------------------------------------------------------------------------
(* The audit query over the rows of the audit_logs table.  The table holds *)
(* up to MaxLog rows, written one per commit, by and about a subject and a  *)
(* bank; a subject, a bank and the validator query it.                      *)
LogActors == {"u1", "b1"}
LogKinds == {"access_requested", "consent_granted"}
LogRows ==
  [actor_id : LogActors, target_user_id : {Some(u) : u \in LogActors},
   event_type : LogKinds]

AuditReaders == {"u1", "b1", "v1"}
Skips == {0, 1}
Limits == {-1, 0, 1, 2}
KindFilters == {None} \cup {Some(k) : k \in LogKinds}

GetAuditLogs ==
  /\ resp = Idle
  /\ \E cu \in AuditReaders, skip \in Skips, limit \in Limits,
        event_type \in KindFilters :
       Step("get_audit_logs", cu, get_audit_logs(cu, skip, limit, event_type))

\* the tables of up to MaxLog rows, one row per commit
AuditTables ==
  UNION {{[i \in 1..n |->
             [actor_id |-> rows[i].actor_id,
              target_user_id |-> rows[i].target_user_id,
              event_type |-> rows[i].event_type,
              tx_hash |-> None, details |-> <<>>,
              created_at |-> i - 1]] : rows \in [1..n -> LogRows]}
         : n \in 0..MaxLog}

InitAudit ==
  /\ consents = <<>>
  /\ kyc_records = <<>>
  /\ store = <<>>
  /\ resp = Idle
  /\ pc = [w \in Workers |-> NoRequest]
  /\ settings = Settings(HexKey(2 * KeyBytes))
  /\ sessions = [w \in Workers |-> NoSession]
  /\ audit \in AuditTables
  /\ now = Len(audit)

----------------------------------------------------------------------------
(* The box on its own.  Callers seal payloads in the pair form              *)
(* (encrypt_document) and in the base64 form (encrypt_to_b64), and hand a   *)
(* sealed blob back to be opened, as it was returned or with one of its     *)
(* bits flipped.  store holds the sealed blobs, each with the payload and   *)
(* the os.urandom value that made it; a caller seals one payload, in one    *)
(* form, up to MaxSealed times.                                             *)
MaxPayload == 2
MaxSealed == 2
PayloadBytes == {0, 165}
Payloads == UNION {[1..n -> PayloadBytes] : n \in 0..MaxPayload}
Urandom ==
  {[i \in 1..NonceBytes |-> 0], [i \in 1..NonceBytes |-> (37 * i) % 256]}

\* bit b of element i of a sequence of bytes or of character codes, flipped
FlipBit(s, i, b) ==
  [s EXCEPT ![i] = IF (@ \div (2 ^ b)) % 2 = 1 THEN @ - 2 ^ b ELSE @ + 2 ^ b]

Flips(s) == {FlipBit(s, i, b) : i \in 1..Len(s), b \in 0..7}

BoxReply(op, k, altered, r) ==
  [op |-> op, caller |-> "none", status |-> k, detail |-> r.raised,
   payload |-> <<altered, r.value>>]

EncryptDocument ==
  /\ resp = Idle
  /\ Len(store) < MaxSealed
  /\ \E plaintext \in Payloads, nonce \in Urandom :
       LET r == encrypt_document(plaintext, nonce)
       IN /\ \A k \in Idx(store) :
               store[k].form = "pair" /\ store[k].plaintext = plaintext
          /\ store' = Append(store,
            [form |-> "pair", plaintext |-> plaintext, urandom |-> nonce,
             nonce |-> r.value[1], blob |-> r.value[2]])
  /\ UNCHANGED <<consents, kyc_records, audit, now, resp, pc, settings, sessions>>

EncryptToB64 ==
  /\ resp = Idle
  /\ Len(store) < MaxSealed
  /\ \E plaintext \in Payloads, nonce \in Urandom :
       LET r == encrypt_to_b64(plaintext, nonce)
       IN /\ \A k \in Idx(store) :
               store[k].form = "b64" /\ store[k].plaintext = plaintext
          /\ store' = Append(store,
            [form |-> "b64", plaintext |-> plaintext, urandom |-> nonce,
             nonce |-> <<>>, blob |-> r.value])
  /\ UNCHANGED <<consents, kyc_records, audit, now, resp, pc, settings, sessions>>

DecryptDocument ==
  /\ resp = Idle
  /\ \E k \in Idx(store) :
       /\ store[k].form = "pair"
       /\ \/ resp' = BoxReply("decrypt_document", k, FALSE,
                       decrypt_document(store[k].nonce, store[k].blob))
          \/ \E nonce \in Flips(store[k].nonce) :
               resp' = BoxReply("decrypt_document", k, TRUE,
                         decrypt_document(nonce, store[k].blob))
          \/ \E ciphertext \in Flips(store[k].blob) :
               resp' = BoxReply("decrypt_document", k, TRUE,
                         decrypt_document(store[k].nonce, ciphertext))
  /\ UNCHANGED <<consents, kyc_records, audit, store, now, pc, settings, sessions>>

DecryptFromB64 ==
  /\ resp = Idle
  /\ \E k \in Idx(store) :
       /\ store[k].form = "b64"
       /\ \/ resp' = BoxReply("decrypt_from_b64", k, FALSE,
                       decrypt_from_b64(store[k].blob))
          \/ \E b64_blob \in Flips(store[k].blob) :
               resp' = BoxReply("decrypt_from_b64", k, TRUE,
                         decrypt_from_b64(b64_blob))
  /\ UNCHANGED <<consents, kyc_records, audit, store, now, pc, settings, sessions>>

----------------------------------------------------------------------------
(* The content store on its own: payloads are uploaded and locations are   *)
(* downloaded while the node answers, refuses or cannot be reached.  A      *)
(* download names a location an upload of the model can return, whether a   *)
(* file lies there or not.                                                  *)
MaxFiles == 2
StorePayloads == {<<>>, <<165>>}
Locations ==
  UNION {{node_hash(encrypt_to_b64(p, n).value),
          <<"mock-", sha256_hexdigest_16(encrypt_to_b64(p, n).value)>>} :
         p \in StorePayloads, n \in Urandom}

StoreReply(op, node, cid, r) ==
  [op |-> op, caller |-> node, status |-> 0, detail |-> r.raised,
   payload |-> <<cid, r.value>>]

UploadEncrypted ==
  /\ resp = Idle
  /\ \E plaintext_bytes \in StorePayloads, nonce \in Urandom,
        node \in NodeOutcomes :
       LET r == IPFSClient_upload_encrypted(plaintext_bytes, nonce, node)
       IN /\ Len(r.value.store) <= MaxFiles
          /\ store' = r.value.store
          /\ resp' = StoreReply("upload_encrypted", node, r.value.cid,
                                Return(plaintext_bytes))
  /\ UNCHANGED <<consents, kyc_records, audit, now, pc, settings, sessions>>

DownloadDecrypted ==
  /\ resp = Idle
  /\ \E cid \in Locations, node \in NodeOutcomes :
       resp' = StoreReply("download_decrypted", node, cid,
                          IPFSClient_download_decrypted(cid, node))
  /\ UNCHANGED <<consents, kyc_records, audit, store, now, pc, settings, sessions>>

----------------------------------------------------------------------------
(* Stored blobs that are altered: between two requests a blob of the store *)
(* is changed where it lies, so that decrypt_from_b64 refuses it.  One      *)
(* subject uploads, b1 asks and is granted, and the three handlers that     *)
(* need the document are called.                                            *)
Alter ==
  /\ resp = Idle
  /\ \E cid \in Idx(store) :
       /\ store[cid].opens
       /\ store' = [store EXCEPT ![cid].opens = FALSE]
  /\ UNCHANGED <<consents, kyc_records, audit, now, resp, pc, settings, sessions>>

AlterUpload ==
  /\ resp = Idle
  /\ \E f \in FraudScores, net \in NetOutcomes :
       VaultStep("upload_kyc", VaultSubject,
                 upload_kyc(VaultSubject, "docA", 0, f, net, "raises"))

AlterRequest ==
  /\ resp = Idle
  /\ VaultStep("request_access", "b1",
               request_access("b1", wallet_address(VaultSubject), "raises"))

AlterView ==
  /\ resp = Idle
  /\ \E id \in ConsentIds, net \in NetOutcomes :
       VaultStep("bank_view_document", "b1",
                 bank_view_document("b1", id, net))

AlterIdentify ==
  /\ resp = Idle
  /\ \E net \in NetOutcomes :
       VaultStep("identify_document", VaultSubject,
                 identify_document(VaultSubject, net))

AlterLiveness ==
  /\ resp = Idle
  /\ \E live \in LivenessOutcomes, match \in MatchOutcomes,
        net \in NetOutcomes :
       VaultStep("check_liveness", VaultSubject,
                 check_liveness(VaultSubject, live, match, net))

----------------------------------------------------------------------------
(* The lists and the view by address: u1 and u2 ask for their pending       *)
(* requests and the banks view a subject by its wallet address, while u1    *)
(* uploads and the banks' requests are granted and revoked.                 *)
GetPendingRequests ==
  /\ resp = Idle
  /\ \E cu \in Subjects :
       VaultStep("get_pending_requests", cu, get_pending_requests(cu))

ViewUserKyc ==
  /\ resp = Idle
  /\ \E cu \in Banks, w \in WalletInputs :
       VaultStep("view_user_kyc", cu, view_user_kyc(cu, w))

----------------------------------------------------------------------------
(* The process and its key.  The environment holds AES_ENCRYPTION_KEY as a  *)
(* string of hex digits; a start of the process reads it into Settings,     *)
(* which requires the variable to be present and a str (config.py 37-40).   *)
(* The database file and the stored blobs outlive the process.  One         *)
(* configured key has 64 digits; the others have 32, 63 and 66.             *)
ConfiguredKeys ==
  {HexKey(2 * KeyBytes), HexKey(KeyBytes), HexKey(2 * KeyBytes - 1),
   HexKey(2 * KeyBytes + 2)}

\* get_settings() of a starting process
get_settings(AES_ENCRYPTION_KEY) == Settings(AES_ENCRYPTION_KEY)

Startup ==
  /\ resp = Idle
  /\ \E k \in ConfiguredKeys :
       /\ settings' = get_settings(k)
       /\ settings' # settings
  /\ UNCHANGED <<consents, kyc_records, audit, store, now, resp, pc, sessions>>

----------------------------------------------------------------------------
(* state after create_tables() on an empty database *)
Init ==
  /\ consents = <<>>
  /\ kyc_records = <<>>
  /\ audit = <<>>
  /\ store = <<>>
  /\ now = 0
  /\ resp = Idle
  /\ pc = [w \in Workers |-> NoRequest]
  /\ settings = Settings(HexKey(2 * KeyBytes))
  /\ sessions = [w \in Workers |-> NoSession]

Next ==
  \/ UploadKyc
  \/ RequestAccess
  \/ GrantAccess
  \/ RevokeAccess
  \/ BankViewDocument
  \/ ReceiveReply

Spec == Init /\ [][Next]_vars

NextConc ==
  \/ UploadKyc
  \/ ConcurrentCheck
  \/ ConcurrentCommit
  \/ ReceiveReply

SpecConc == Init /\ [][NextConc]_vars

\* the consent engine together with the vault's liveness check, the
\* subject's own fetch and the verifier decisions
NextVault ==
  \/ VaultUpload
  \/ VaultRequest
  \/ VaultGrant
  \/ VaultRevoke
  \/ VaultView
  \/ IdentifyDocument
  \/ CheckLiveness
  \/ BankVerifyKyc
  \/ BankRejectKyc
  \/ BankRequestMoreDocs
  \/ ReceiveReply

SpecVault == Init /\ [][NextVault]_vars

NextReupload ==
  \/ Reupload
  \/ ReuploadRequest
  \/ ReuploadGrant
  \/ ReuploadView
  \/ ReceiveReply

SpecReupload == Init /\ [][NextReupload]_vars

NextAudit ==
  \/ GetAuditLogs
  \/ ReceiveReply

SpecAudit == InitAudit /\ [][NextAudit]_vars

NextOwn ==
  \/ Reupload
  \/ ReuploadRequest
  \/ OwnGrant
  \/ OwnRevoke
  \/ ReceiveReply

SpecOwn == Init /\ [][NextOwn]_vars

NextUploads ==
  \/ ConcurrentUploadEncrypt
  \/ ConcurrentUploadDelete
  \/ ConcurrentUploadBusy
  \/ ConcurrentUploadCommit
  \/ ReceiveReply

SpecUploads == Init /\ [][NextUploads]_vars

NextViews ==
  \/ VaultUpload
  \/ VaultRequest
  \/ VaultGrant
  \/ VaultRevoke
  \/ GetPendingRequests
  \/ ViewUserKyc
  \/ ReceiveReply

SpecViews == Init /\ [][NextViews]_vars

NextStart ==
  \/ Startup
  \/ VaultUpload
  \/ VaultRequest
  \/ VaultGrant
  \/ VaultView
  \/ ReceiveReply

SpecStart == Init /\ [][NextStart]_vars

NextBox ==
  \/ EncryptDocument
  \/ EncryptToB64
  \/ DecryptDocument
  \/ DecryptFromB64
  \/ ReceiveReply

SpecBox == Init /\ [][NextBox]_vars

NextStore ==
  \/ UploadEncrypted
  \/ DownloadDecrypted
  \/ ReceiveReply

SpecStore == Init /\ [][NextStore]_vars

NextAlter ==
  \/ AlterUpload
  \/ AlterRequest
  \/ VaultGrant
  \/ Alter
  \/ AlterView
  \/ AlterIdentify
  \/ AlterLiveness
  \/ ReceiveReply

SpecAlter == Init /\ [][NextAlter]_vars

----------------------------------------------------------------------------
(* The scores of the liveness check.  verify_liveness answers (False, 0)   *)
(* without a face, and else 50 plus 40 or 20 for the eyes and 10 for the   *)
(* distance of each face, capped at 100, valid from 60 on (liveness.py     *)
(* 43-63); compare_faces answers any score of 0..100, a match above 40     *)
(* (liveness.py 134-137).                                                  *)
MaxChecks == 1
Scores == 0..MaxScore
LivenessResults ==
  {<<FALSE, 0>>} \cup {<<l >= 60, l>> : l \in {50, 60, 70, 80, 90, 100}}
compare_faces(m) == <<m > 40, m>>

Checks == Cardinality({i \in Idx(audit) : audit[i].event_type = "liveness_check"})

ScoreStep(op, caller, r) ==
  StepWithin(op, caller, r, 1, 1 + MaxChecks)

ScoreUpload ==
  /\ resp = Idle
  /\ \E f \in Scores :
       ScoreStep("upload_kyc", VaultSubject,
                 upload_kyc(VaultSubject, "docA", 0, f, "up", "raises"))

ScoreLiveness ==
  /\ resp = Idle
  /\ kyc_records # <<>>
  /\ Checks < MaxChecks
  /\ \E live \in LivenessResults, m \in Scores :
       ScoreStep("check_liveness", VaultSubject,
                 check_liveness(VaultSubject, live, compare_faces(m), "up"))

NextScores ==
  \/ ScoreUpload
  \/ ScoreLiveness
  \/ ReceiveReply

SpecScores == Init /\ [][NextScores]_vars

----------------------------------------------------------------------------
(* bank_view_document beside the other requests.  The handler is a         *)
(* coroutine: it looks the consent and the document record up, awaits the   *)
(* download from the IPFS node (kyc.py 484), and then adds the audit entry, *)
(* commits and answers.  While it awaits, the server runs other requests.   *)

\* lines 470-480: the lookups, up to the await
FetchCheck(w, current_user, consent_id) ==
  LET by_id == consent_by_id(consent_id)
      found == /\ by_id # None
               /\ consents[by_id[1]].bank_id = current_user
               /\ consents[by_id[1]].status = "granted"
      row == consents[by_id[1]]
      kyc == First(kyc_records, LAMBDA k : k.user_id = row.user_id)
  IN /\ resp = Idle
     /\ sessions[w] = NoSession
     /\ IF ~found \/ kyc = None
        THEN /\ resp' = Reply("bank_view_document", current_user,
                          bank_view_document(current_user, consent_id, "up"))
             /\ UNCHANGED sessions
        ELSE /\ sessions' = [sessions EXCEPT ![w] =
                  [op |-> "bank_view_document", stage |-> "checked",
                   caller |-> current_user,
                   local |-> <<by_id[1], kyc_records[kyc[1]].ipfs_cid,
                               row.user_id>>]]
             /\ UNCHANGED resp
     /\ UNCHANGED <<consents, kyc_records, audit, store, now, pc, settings>>

\* lines 483-506: the download returns or raises; the audit entry, the
\* commit and the answer
FetchDeliver(w, net) ==
  LET current_user == sessions[w].caller
      consent_id == sessions[w].local[1]
      ipfs_cid == sessions[w].local[2]
      plaintext_bytes == download_decrypted(ipfs_cid, net)
  IN /\ resp = Idle
     /\ sessions[w].op = "bank_view_document"
     /\ sessions[w].stage = "checked"
     /\ Len(audit) < MaxVaultAudit
     /\ sessions' = [sessions EXCEPT ![w] = NoSession]
     /\ IF plaintext_bytes = None
        THEN /\ resp' = [op |-> "bank_view_document", caller |-> current_user,
                         status |-> 502,
                         detail |-> "Failed to retrieve document from IPFS",
                         payload |-> <<str_e(ipfs_cid, net)>>]
             /\ UNCHANGED <<audit, now>>
        ELSE /\ resp' = [op |-> "bank_view_document", caller |-> current_user,
                         status |-> 200, detail |-> "document",
                         payload |-> <<consent_id, plaintext_bytes[1]>>]
             /\ audit' = db_add(AuditLog(current_user,
                                  Some(sessions[w].local[3]),
                                  "document_accessed", None, <<consent_id>>))
             /\ now' = now + 1
     /\ UNCHANGED <<consents, kyc_records, store, pc, settings>>

ConcurrentFetchCheck ==
  \E w \in Workers, cu \in Banks, id \in ConsentIds : FetchCheck(w, cu, id)

ConcurrentFetchDeliver ==
  \E w \in Workers, net \in NetOutcomes : FetchDeliver(w, net)

NextFetch ==
  \/ VaultUpload
  \/ VaultRequest
  \/ VaultGrant
  \/ VaultRevoke
  \/ ConcurrentFetchCheck
  \/ ConcurrentFetchDeliver
  \/ ReceiveReply

SpecFetch == Init /\ [][NextFetch]_vars

----------------------------------------------------------------------------
(* Documents with a validity.  u1 uploads with or without validity_days    *)
(* and uploads again while b1 holds a record; the clock of the server      *)
(* advances between the requests as well as with them.                     *)
MaxClock == 6

ExpiryStep(op, caller, r) ==
  StepWithin(op, caller, r, MaxReuploads, MaxVaultAudit)

ExpiryUpload ==
  /\ resp = Idle
  /\ \E v \in ValidityDays :
       ExpiryStep("upload_kyc", VaultSubject,
                  upload_kyc(VaultSubject, "docA", v, 10, "up", "raises"))

ExpiryRequest ==
  /\ resp = Idle
  /\ ExpiryStep("request_access", "b1",
                request_access("b1", wallet_address(VaultSubject), "raises"))

ExpiryGrant ==
  /\ resp = Idle
  /\ \E id \in IdInputs :
       ExpiryStep("grant_access", VaultSubject,
                  grant_access(VaultSubject, id, GenuineGrant[1],
                               GenuineGrant[2], "raises"))

ExpiryView ==
  /\ resp = Idle
  /\ \E id \in ConsentIds :
       ExpiryStep("bank_view_document", "b1",
                  bank_view_document("b1", id, "up"))

\* datetime.now(timezone.utc) is later at the next request
Tick ==
  /\ resp = Idle
  /\ now < MaxClock
  /\ now' = now + 1
  /\ UNCHANGED <<consents, kyc_records, audit, store, resp, pc, settings,
                 sessions>>

NextExpiry ==
  \/ ExpiryUpload
  \/ ExpiryRequest
  \/ ExpiryGrant
  \/ ExpiryView
  \/ Tick
  \/ ReceiveReply

SpecExpiry == Init /\ [][NextExpiry]_vars

----------------------------------------------------------------------------
(* Properties *)
RowsOf(s, v) ==
  {i \in Idx(consents) : consents[i].user_id = s /\ consents[i].bank_id = v}

Committed(r) == r.audit # audit

\* the signature was made by the subject's key over the message presented
Genuine(u, m, sig) == sig.key = KeyOf(u) /\ sig.msg = m

Events(kind, actor, target, details) ==
  {j \in Idx(audit) :
     /\ audit[j].event_type = kind
     /\ audit[j].actor_id = actor
     /\ audit[j].target_user_id = Some(target)
     /\ audit[j].details = details}

\* C1: every (subject, verifier) pair has at most one consent record whose
\* status is pending or granted.
C1_AtMostOneLive ==
  \A s \in Subjects, v \in Banks :
    Cardinality({i \in RowsOf(s, v) : consents[i].status \in Live}) <= 1

\* C2: a consent record changes status only pending -> granted or
\* granted -> revoked, and a granted record is not granted a second time.
C2_OnlyLifecycleTransitions ==
  [][\A i \in Idx(consents) :
       /\ consents'[i].status # consents[i].status =>
            <<consents[i].status, consents'[i].status>> \in
              {<<"pending", "granted">>, <<"granted", "revoked">>}
       /\ (consents[i].status = "granted" /\ consents'[i].status = "granted") =>
            consents'[i].granted_at = consents[i].granted_at]_vars

\* C3: with the content store reachable, a verifier's fetch for a subject
\* returns the subject's document when the pair's most recently created
\* record is granted, and is otherwise denied with 403 and no document.
Latest(s, v) == CHOOSE i \in RowsOf(s, v) : \A j \in RowsOf(s, v) : j <= i

LatestGranted(s, v) ==
  RowsOf(s, v) # {} /\ consents[Latest(s, v)].status = "granted"

DocumentOf(s) ==
  LET kyc == First(kyc_records, LAMBDA k : k.user_id = s)
  IN store[kyc_records[kyc[1]].ipfs_cid].plaintext

C3_FetchIffLatestGranted ==
  \A s \in Subjects, v \in Banks :
    IF LatestGranted(s, v)
    THEN LET r == bank_view_document(v, <<"consent", Latest(s, v)>>, "up")
         IN r.status = 200 /\ r.payload[2] = DocumentOf(s)
    ELSE \A i \in Idx(consents) :
           consents[i].user_id = s =>
             LET r == bank_view_document(v, <<"consent", i>>, "up")
             IN r.status = 403 /\ r.payload = <<>>

\* C4: after a revoke of (subject, verifier) has committed, every fetch by
\* that verifier for that subject is denied until a later request_access and
\* a grant after it have committed for the pair.
LastRevoke(s, v) ==
  LET revs == Events("consent_revoked", s, s, <<v>>)
  IN IF revs = {} THEN 0 ELSE CHOOSE j \in revs : \A k \in revs : k <= j

RestoredAfter(s, v, j) ==
  \E a \in Events("access_requested", v, s, <<v>>) :
    /\ j < a
    /\ \E b \in Events("consent_granted", s, s, <<v>>) : a < b

C4_DeniedAfterRevoke ==
  \A s \in Subjects, v \in Banks :
    (LastRevoke(s, v) # 0 /\ ~RestoredAfter(s, v, LastRevoke(s, v))) =>
      \A i \in Idx(consents), net \in NetOutcomes :
        consents[i].user_id = s =>
          bank_view_document(v, <<"consent", i>>, net).status = 403

\* C5: a grant or revoke whose signature is not the subject's signature over
\* the presented message is answered 403 "Invalid digital signature" and
\* leaves the consent records and the audit log as they were.
C5_InvalidSignatureRejected ==
  resp = Idle =>
    \A cu \in Subjects, id \in IdInputs, m \in Messages, sig \in Signatures,
       ledger \in LedgerOutcomes :
      ~Genuine(cu, m, sig) =>
        \A r \in {grant_access(cu, id, m, sig, ledger),
                  revoke_access(cu, id, m, sig, ledger)} :
          /\ r.status = 403
          /\ r.detail = "Invalid digital signature"
          /\ r.consents = consents
          /\ r.audit = audit

\* a grant with an altered message was refused while the caller's request
\* was pending
C5_Witness ==
  /\ resp.op = "grant_access"
  /\ resp.detail = "Invalid digital signature"
  /\ \E i \in Idx(consents) :
       consents[i].user_id = resp.caller /\ consents[i].status = "pending"

\* C6: a grant (revoke) commits only with a message of the grant (revoke)
\* operation naming the verifier of the record, under a signature that was
\* not used for an earlier grant.
UsedBefore(sig) == \E i \in Idx(consents) : consents[i].signature = Some(sig)

C6_MessageBoundToVerifier ==
  \A cu \in Subjects, id \in IdInputs, m \in Messages, sig \in Signatures :
    /\ LET r == grant_access(cu, id, m, sig, "raises")
       IN Committed(r) =>
            /\ m.op = "GRANT_CONSENT"
            /\ m.bank = consents[r.payload[1]].bank_id
            /\ ~UsedBefore(sig)
    /\ LET r == revoke_access(cu, id, m, sig, "raises")
       IN Committed(r) =>
            /\ m.op = "REVOKE_CONSENT"
            /\ m.bank = consents[r.payload[1]].bank_id
            /\ ~UsedBefore(sig)

\* C7: when every record of a (subject, verifier) pair is pending, a revoke
\* by the subject for that verifier changes no record and appends no audit
\* entry, and with a genuine signature it is answered 404.
OnlyPending(s, v) ==
  RowsOf(s, v) # {} /\ \A i \in RowsOf(s, v) : consents[i].status = "pending"

C7_RevokeOfPendingRejected ==
  resp = Idle =>
    \A s \in Subjects, v \in Banks :
      OnlyPending(s, v) =>
        \A m \in Messages, sig \in Signatures, ledger \in LedgerOutcomes :
          \A id \in {<<"user", v>>} \cup {<<"consent", i>> : i \in RowsOf(s, v)} :
            LET r == revoke_access(s, id, m, sig, ledger)
            IN /\ r.consents = consents
               /\ r.audit = audit
               /\ Genuine(s, m, sig) => r.status = 404

\* a genuinely signed revoke was answered 404 while the caller's records
\* with both banks were pending
C7_Witness ==
  /\ resp.op = "revoke_access"
  /\ resp.status = 404
  /\ resp.detail = "No active consent to revoke"
  /\ \A v \in Banks : OnlyPending(resp.caller, v)

\* C8: of the request_access calls racing for one pair only one creates a
\* pending record.
C8_OneCreateWins ==
  \A s \in Subjects, v \in Banks :
    Cardinality({i \in RowsOf(s, v) : consents[i].status = "pending"}) <= 1

\* C9: a pending request is granted at most once: a pair never has more
\* consent_granted audit entries than access requests.
C9_GrantedOncePerRequest ==
  \A s \in Subjects, v \in Banks :
    Cardinality(Events("consent_granted", s, s, <<v>>))
      <= Cardinality(Events("access_requested", v, s, <<v>>))

\* C10: granted_at is set only on granted or revoked records, revoked_at
\* only on revoked records, the signature only on granted or revoked records.
C10_TimestampsMatchStatus ==
  \A i \in Idx(consents) :
    /\ consents[i].granted_at # None => consents[i].status \in {"granted", "revoked"}
    /\ consents[i].revoked_at # None => consents[i].status = "revoked"
    /\ consents[i].signature # None => consents[i].status \in {"granted", "revoked"}

\* C11: a verifier decision (accept, reject, request for more documents) is
\* taken only on a record that is granted and belongs to the calling bank;
\* on any other record the call is answered 403 and the consent records, the
\* documents' is_verified flags and the audit log stay as they were.
DecidableBy(v, id) ==
  LET by_id == consent_by_id(id)
  IN /\ by_id # None
     /\ consents[by_id[1]].bank_id = v
     /\ consents[by_id[1]].status = "granted"

Decisions(v, id) ==
  {bank_verify_kyc(v, id)}
    \cup {bank_reject_kyc(v, id, reason) : reason \in Reasons}
    \cup {bank_request_more_docs(v, id, message) : message \in DocRequests}

C11_DecisionOnlyOnGranted ==
  resp = Idle =>
    \A v \in Banks, id \in ConsentIds :
      ~DecidableBy(v, id) =>
        \A r \in Decisions(v, id) :
          /\ r.status = 403
          /\ r.consents = consents
          /\ r.kyc_records = kyc_records
          /\ r.audit = audit

\* a decision call was refused while the caller's only record was revoked
C11_Witness ==
  /\ resp.op \in {"bank_verify_kyc", "bank_reject_kyc", "bank_request_more_docs"}
  /\ resp.status = 403
  /\ \E i \in Idx(consents) :
       consents[i].bank_id = resp.caller /\ consents[i].status = "revoked"
  /\ \A i \in Idx(consents) :
       consents[i].bank_id = resp.caller => consents[i].status = "revoked"

\* C12: every subject has at most one document record, and once it has
\* uploaded, the record is the one of its most recent upload: it carries
\* that upload's CID, and a fetch through a granted record returns the bytes
\* of that upload.
UploadsOf(s) ==
  {j \in Idx(audit) :
     audit[j].event_type = "kyc_registered" /\ audit[j].actor_id = s}

LastUpload(s) == CHOOSE j \in UploadsOf(s) : \A k \in UploadsOf(s) : k <= j

RecordsOf(s) == {i \in Idx(kyc_records) : kyc_records[i].user_id = s}

C12_OneRecordLatestUpload ==
  \A s \in Subjects :
    /\ Cardinality(RecordsOf(s)) <= 1
    /\ UploadsOf(s) = {} => RecordsOf(s) = {}
    /\ UploadsOf(s) # {} =>
         LET cid == audit[LastUpload(s)].details[1]
         IN /\ \E i \in RecordsOf(s) : kyc_records[i].ipfs_cid = cid
            /\ \A i \in Idx(consents) :
                 (consents[i].user_id = s /\ consents[i].status = "granted") =>
                   LET r == bank_view_document(consents[i].bank_id,
                                               <<"consent", i>>, "up")
                   IN r.status = 200 /\ r.payload[2] = store[cid].plaintext

\* a bank fetched the second document of a subject that had uploaded a
\* different one before
C12_Witness ==
  /\ resp.op = "bank_view_document"
  /\ resp.status = 200
  /\ \E s \in Subjects :
       /\ consents[resp.payload[1]].user_id = s
       /\ Cardinality(UploadsOf(s)) >= 2
       /\ \E j \in UploadsOf(s) :
            store[audit[j].details[1]].plaintext # resp.payload[2]

\* C13: an upload scored at or above the fraud threshold is answered 422
\* and writes nothing: the content store, the subject's document record and
\* the audit log stay as they were; an upload scored below it passes.
GateScores == {0, FraudThreshold - 1, FraudThreshold, FraudThreshold + 1, 100}

C13_FlaggedUploadRejected ==
  resp = Idle =>
    \A cu \in Subjects, d \in Replacements, v \in ValidityDays,
       f \in GateScores, net \in NetOutcomes, ledger \in LedgerOutcomes :
      LET r == upload_kyc(cu, d, v, f, net, ledger)
      IN IF f >= FraudThreshold
         THEN /\ r.status = 422
              /\ r.detail = "Document flagged by fraud detection"
              /\ r.store = store
              /\ r.kyc_records = kyc_records
              /\ r.audit = audit
         ELSE /\ r.status = 200
              /\ Len(r.store) = Len(store) + 1

\* a flagged upload was refused while the caller had a document on record
C13_Witness ==
  /\ resp.op = "upload_kyc"
  /\ resp.status = 422
  /\ RecordsOf(resp.caller) # {}

\* C14: a subject's document becomes verified only by a liveness check of
\* that subject that passed with a score above the liveness threshold on a
\* document scored below the fraud threshold, or by the accept decision of
\* a bank holding a granted record of the subject at that moment.
Verified(records, s) ==
  \E i \in Idx(records) : records[i].user_id = s /\ records[i].is_verified

C14_VerifiedOnlyByLivenessOrAccept ==
  [][\A s \in Subjects :
       (~Verified(kyc_records, s) /\ Verified(kyc_records', s)) =>
         \/ /\ resp'.op = "check_liveness"
            /\ resp'.caller = s
            /\ \E i \in Idx(kyc_records') :
                 /\ kyc_records'[i].user_id = s
                 /\ kyc_records'[i].liveness_verified
                 /\ kyc_records'[i].liveness_score[1] > LivenessThreshold
                 /\ kyc_records'[i].fraud_score[1] < FraudThreshold
         \/ /\ resp'.op = "bank_verify_kyc"
            /\ \E c \in Idx(consents) :
                 /\ consents[c].user_id = s
                 /\ consents[c].bank_id = resp'.caller
                 /\ consents[c].status = "granted"]_vars

\* the subject's first liveness check verified its document, no bank having
\* accepted it
C14_Witness ==
  /\ resp.op = "check_liveness"
  /\ Verified(kyc_records, resp.caller)
  /\ Cardinality({j \in Idx(audit) : audit[j].event_type = "liveness_check"}) = 1
  /\ \A j \in Idx(audit) : audit[j].event_type # "kyc_verified"

\* C15: a commit that changes a consent record or a document record appends
\* exactly one audit entry, and a commit of request_access, grant, revoke,
\* accept, reject or upload that appends an audit entry carries the change
\* of a consent record or a document record with it.
Mutations == {"request_access", "grant_access", "revoke_access",
              "bank_verify_kyc", "bank_reject_kyc", "upload_kyc"}

C15_ChangeAndAuditTogether ==
  [][LET changed == consents' # consents \/ kyc_records' # kyc_records
         appended == audit' # audit
     IN /\ changed =>
             /\ Len(audit') = Len(audit) + 1
             /\ SubSeq(audit', 1, Len(audit)) = audit
        /\ (appended /\ resp'.op \in Mutations) => changed]_vars

\* C16: a fetch of the decrypted document that succeeds, by the subject
\* itself or by a bank, appends exactly one audit entry with the requester
\* as actor and the subject as target; a fetch that fails appends none.
Fetches == {"bank_view_document", "identify_document"}

FetchedSubject(reply) ==
  IF reply.op = "identify_document" THEN reply.caller
  ELSE consents[reply.payload[1]].user_id

C16_FetchAudited ==
  [][(resp = Idle /\ resp'.op \in Fetches) =>
       IF resp'.status = 200
       THEN /\ Len(audit') = Len(audit) + 1
            /\ SubSeq(audit', 1, Len(audit)) = audit
            /\ audit'[Len(audit')].actor_id = resp'.caller
            /\ audit'[Len(audit')].target_user_id = Some(FetchedSubject(resp'))
       ELSE audit' = audit]_vars

\* C17: the audit log only grows: every entry of a state is there, with the
\* same field values and at the same place, in every later state.
C17_AuditAppendOnly ==
  [][/\ Len(audit') >= Len(audit)
     /\ SubSeq(audit', 1, Len(audit)) = audit]_vars

\* four commits, by the subject and by a bank, have been logged
C17_Witness ==
  /\ Len(audit) >= 4
  /\ \E j \in Idx(audit) : audit[j].actor_id \in Banks
  /\ \E j \in Idx(audit) : audit[j].actor_id \in Subjects
  /\ resp.status = 200

\* C18: the validator's query returns every audit entry; the query of any
\* other caller, subject or bank, returns exactly the entries in which the
\* caller is the actor or the target.
VisibleTo(c) ==
  {i \in Idx(audit) :
     \/ role(c) = "validator"
     \/ audit[i].actor_id = c
     \/ audit[i].target_user_id = Some(c)}

Range(s) == {s[k] : k \in Idx(s)}

Matching(c, event_type) ==
  {i \in VisibleTo(c) :
     event_type # None => audit[i].event_type = event_type[1]}

Page(rows, skip, limit) ==
  [k \in 1..(IF limit <= 0 \/ skip >= Len(rows) THEN 0
             ELSE IF skip + limit > Len(rows) THEN Len(rows) - skip
             ELSE limit) |-> rows[skip + k]]

C19_FilterBeforePagination ==
  \A c \in AuditReaders, skip \in Skips, limit \in Limits,
     event_type \in KindFilters :
    LET r == get_audit_logs(c, skip, limit, event_type)
        visible == order_by_created_at_desc(Matching(c, event_type))
    IN /\ r.payload[1] = Len(visible)
       /\ r.payload[2] = Page(visible, skip, limit)

\* C20: for request_access, grant, revoke and upload, the outcome with a
\* failing ledger call is the outcome with a working one but for the anchor
\* hash: the same answer, the same change of the consent and document
\* records, the same single audit entry, with no anchor hash in it.
Unanchored(rows) == [i \in Idx(rows) |-> [rows[i] EXCEPT !.tx_hash = None]]

SameButAnchor(ko, ok) ==
  /\ ko.status = ok.status
  /\ ko.detail = ok.detail
  /\ ko.payload = ok.payload
  /\ Unanchored(ko.consents) = Unanchored(ok.consents)
  /\ Unanchored(ko.kyc_records) = Unanchored(ok.kyc_records)
  /\ Unanchored(ko.audit) = Unanchored(ok.audit)
  /\ ko.store = ok.store
  /\ Committed(ok) =>
       /\ Len(ko.audit) = Len(audit) + 1
       /\ ko.audit[Len(ko.audit)].tx_hash = None

----------------------------------------------------------------------------
(* CryptoBox *)
Opened == resp.op \in {"decrypt_document", "decrypt_from_b64"}
Altered == Opened /\ resp.payload[1]
Sealed(k) == <<store[k].nonce, store[k].blob>>

\* C21: a sealed blob handed back as it was returned opens to the payload
\* it was made from, in the pair form and in the base64 form, and two seals
\* of one payload made with different os.urandom values are different blobs
C21_RoundTrip ==
  /\ (Opened /\ ~Altered) =>
       /\ resp.detail = ""
       /\ resp.payload[2] = store[resp.status].plaintext
  /\ \A j, k \in Idx(store) :
       (store[j].plaintext = store[k].plaintext
          /\ store[j].urandom # store[k].urandom) => Sealed(j) # Sealed(k)

\* a payload sealed twice in the base64 form, and the second blob opened
C21_Witness ==
  /\ resp.op = "decrypt_from_b64"
  /\ ~Altered
  /\ resp.status = 2
  /\ store[1].urandom # store[2].urandom
  /\ Len(store[2].plaintext) = MaxPayload

\* the exceptions with which a blob is refused
IntegrityErrors == {"InvalidTag", "binascii.Error", "ValueError"}

----------------------------------------------------------------------------
(* ContentStore *)
Put == resp.op = "upload_encrypted"
Get == resp.op = "download_decrypted"
LocalCopy(cid) == file_at("mock", cid)
NothingAt(cid) ==
  /\ LocalCopy(cid) = None
  /\ startswith_mock(cid) \/ file_at("net", cid) = None

\* C23: an upload returns a location whatever the node does; when the node
\* refuses or cannot be reached, the location is "mock-" followed by the
\* hash of the ciphertext, which no location given by the node is, and the
\* ciphertext lies in the local directory under it; a download of a "mock-"
\* location that has its file returns the uploaded payload, whatever the
\* node does
C23_FallbackPut ==
  /\ Put =>
       /\ resp.detail = ""
       /\ resp.caller = "answers" => ~startswith_mock(resp.payload[1])
       /\ resp.caller # "answers" =>
            LET f == LocalCopy(resp.payload[1])
            IN /\ startswith_mock(resp.payload[1])
               /\ f # None
               /\ resp.payload[1] =
                    <<"mock-", sha256_hexdigest_16(store[f[1]].bytes)>>
               /\ store[f[1]].uploaded = resp.payload[2]
  /\ (Get /\ startswith_mock(resp.payload[1])
          /\ LocalCopy(resp.payload[1]) # None) =>
       /\ resp.detail = ""
       /\ resp.payload[2] = store[LocalCopy(resp.payload[1])[1]].uploaded

\* a payload uploaded while the node was down was read back while it was down
C23_Witness ==
  /\ Get
  /\ resp.caller = "unreachable"
  /\ startswith_mock(resp.payload[1])
  /\ resp.detail = ""
  /\ resp.payload[2] = <<165>>

NotFound == "RuntimeError: Local mock file not found"
Unavailable == "RuntimeError: IPFS unavailable and no local fallback found"

\* C24: a download fails as not found when no blob lies at the location
\* (the node answers and has nothing there, or a "mock-" location has no
\* local file) and as unavailable only when the node does not answer and
\* there is no local copy
C24_GetFailures ==
  Get =>
    /\ resp.detail = Unavailable =>
         resp.caller # "answers" /\ LocalCopy(resp.payload[1]) = None
    /\ (NothingAt(resp.payload[1])
          /\ (startswith_mock(resp.payload[1]) \/ resp.caller = "answers")) =>
         resp.detail = NotFound

----------------------------------------------------------------------------
(* Altered blobs *)
\* the blob of the subject's document is a local file that no longer opens
AlteredBlob(s) ==
  LET kyc == First(kyc_records, LAMBDA k : k.user_id = s)
  IN /\ kyc # None
     /\ store[kyc_records[kyc[1]].ipfs_cid].kind = "mock"
     /\ ~store[kyc_records[kyc[1]].ipfs_cid].opens

\* the reply of a handler that came to the download of the document
NeedsDocument(r) ==
  \/ r.op \in {"identify_document", "check_liveness"}
  \/ r.op = "bank_view_document" /\ r.status \in {200, 502}

\* C25: a handler that needs the plaintext of a stored blob that fails
\* authentication answers with an error, which is not the error of an
\* unreachable store, and leaves the KYC records as they were
C25_IntegritySurfaced ==
  [][(resp = Idle /\ resp' # Idle /\ NeedsDocument(resp')
        /\ AlteredBlob(VaultSubject)) =>
       /\ resp'.status # 200
       /\ resp'.payload # <<"IPFS unavailable and no local fallback found">>
       /\ kyc_records' = kyc_records]_vars

----------------------------------------------------------------------------
(* The scenario of a request, a grant, a fetch, a revoke and a fetch *)
ValidDocument(s) ==
  \E i \in RecordsOf(s) :
    kyc_records[i].expires_at = None \/ kyc_records[i].expires_at[1] >= now

\* the one consent record is that of the subject and the verifier
OnlyRecord(status) ==
  /\ Len(consents) = 1
  /\ consents[1].user_id = VaultSubject
  /\ consents[1].bank_id = "b1"
  /\ consents[1].status = status

\* how the subject's grant names the verifier's request: by the id of the
\* request or by the id of the verifier
ForB1 == {<<"consent", 1>>, <<"user", "b1">>}

\* C26: with a valid document of the subject and no consent record, a
\* request of the verifier creates a pending record; the subject's grant
\* with a matching signature makes it granted and sets granted_at; the
\* verifier's fetch then returns the uploaded bytes; the subject's revoke
\* with a matching signature makes it revoked; the verifier's fetch is then
\* denied
C26_Scenario ==
  (resp = Idle /\ ValidDocument(VaultSubject)) =>
    /\ consents = <<>> =>
         LET r == request_access("b1", wallet_address(VaultSubject), "raises")
         IN /\ r.status = 202
            /\ Len(r.consents) = 1
            /\ r.consents[1].user_id = VaultSubject
            /\ r.consents[1].bank_id = "b1"
            /\ r.consents[1].status = "pending"
    /\ OnlyRecord("pending") =>
         \A id \in ForB1 :
           LET r == grant_access(VaultSubject, id, GenuineGrant[1],
                                 GenuineGrant[2], "raises")
           IN /\ r.consents[1].status = "granted"
              /\ r.consents[1].granted_at = Some(now)
    /\ OnlyRecord("granted") =>
         /\ LET r == bank_view_document("b1", <<"consent", 1>>, "up")
            IN r.status = 200 /\ r.payload[2] = DocumentOf(VaultSubject)
         /\ LET r == revoke_access(VaultSubject, <<"user", "b1">>,
                                   GenuineGrant[1], GenuineGrant[2], "raises")
            IN /\ r.status = 200
               /\ r.consents[1].status = "revoked"
               /\ r.consents[1].revoked_at = Some(now)
    /\ OnlyRecord("revoked") =>
         LET r == bank_view_document("b1", <<"consent", 1>>, "up")
         IN r.status = 403 /\ r.payload = <<>> /\ r.audit = audit

\* the five steps were taken in this order, and the last fetch was denied
C26_Witness ==
  /\ resp.op = "bank_view_document"
  /\ resp.caller = "b1"
  /\ resp.status = 403
  /\ OnlyRecord("revoked")
  /\ [j \in Idx(audit) |-> audit[j].event_type] =
       <<"kyc_registered", "access_requested", "consent_granted",
         "document_accessed", "consent_revoked">>

----------------------------------------------------------------------------
(* Preconditions of a request *)
Unchanged(r) ==
  /\ r.consents = consents
  /\ r.audit = audit
  /\ r.kyc_records = kyc_records

\* C27: a request creates a pending record, with one audit entry, when
\* the addressed subject exists, has a document that is not expired, and
\* the pair has no pending or granted record; an unknown subject and a
\* subject without a document are answered 404, an expired document 410, a
\* live record of the pair 409, and a rejected request adds no consent
\* record and no audit entry
C27_RequestPreconditions ==
  resp = Idle =>
    \A cu \in Banks, w \in WalletInputs, ledger \in LedgerOutcomes :
      LET r == request_access(cu, w, ledger)
          s == First(users, LAMBDA u : wallet_address(u) = w /\ role(u) = "user")
          doc == First(kyc_records, LAMBDA k : k.user_id = users[s[1]])
          expires_at == kyc_records[doc[1]].expires_at
          expired == expires_at # None /\ expires_at[1] < now
          live == \E i \in RowsOf(users[s[1]], cu) : consents[i].status \in Live
      IN IF s = None \/ doc = None
         THEN r.status = 404 /\ Unchanged(r)
         ELSE IF expired \/ live
         THEN /\ r.status \in {410, 409}
              /\ ~live => r.status = 410
              /\ ~expired => r.status = 409
              /\ Unchanged(r)
         ELSE /\ r.status = 202
              /\ r.consents = Append(consents, ConsentRecord(users[s[1]], cu))
              /\ Len(r.audit) = Len(audit) + 1
              /\ r.audit[Len(r.audit)].event_type = "access_requested"

----------------------------------------------------------------------------
(* The key at startup *)
\* C28: the key is validated when the process starts, so the running
\* process holds a key of exactly 256 bits and no upload or fetch that it
\* accepted is answered with a failure caused by the length of the key
C28_KeyCheckedAtStartup ==
  resp # Idle =>
    /\ key_error = ""
    /\ resp.status = 502 => resp.payload # <<KeyMessage>>

----------------------------------------------------------------------------
(* The list of pending requests *)
ItemsOf(r) == IF r.payload[1] = "list" THEN r.payload[2] ELSE <<>>

PendingOf(s) ==
  {i \in Idx(consents) : consents[i].user_id = s /\ consents[i].status = "pending"}

\* C29: the list of pending requests a subject asks for has one item for
\* each pending consent record of that subject and no other item, and the
\* request changes no table and no stored blob
C29_ListPending ==
  resp = Idle =>
    \A cu \in Subjects :
      LET r == get_pending_requests(cu)
          items == ItemsOf(r)
      IN /\ r.status = 200
         /\ {items[j].consent_id : j \in Idx(items)} =
              {<<"consent", i>> : i \in PendingOf(cu)}
         /\ Len(items) = Cardinality(PendingOf(cu))
         /\ Unchanged(r)
         /\ r.store = store

----------------------------------------------------------------------------
(* The view by address *)
GrantedTo(s, bank) ==
  \E i \in Idx(consents) :
    /\ consents[i].user_id = s
    /\ consents[i].bank_id = bank
    /\ consents[i].status = "granted"

HasDocument(s) == \E i \in Idx(kyc_records) : kyc_records[i].user_id = s

\* C30: a view by address of a verifier that holds a granted record of the
\* addressed subject, who has a document, succeeds, returns the subject's
\* KYC data and appends exactly one audit entry, whose event kind is a
\* member of AuditEventType; a view of a verifier without a granted record
\* of the subject is answered 403 and changes nothing
C30_ViewByAddress ==
  resp = Idle =>
    \A cu \in Banks, s \in Subjects :
      LET r == view_user_kyc(cu, wallet_address(s))
      IN /\ (GrantedTo(s, cu) /\ HasDocument(s)) =>
              /\ r.status = 200
              /\ ItemsOf(r) # <<>>
              /\ Len(r.audit) = Len(audit) + 1
              /\ SubSeq(r.audit, 1, Len(audit)) = audit
              /\ r.audit[Len(r.audit)].event_type \in AuditEventType
              /\ r.consents = consents
              /\ r.kyc_records = kyc_records
         /\ ~GrantedTo(s, cu) =>
              /\ r.status = 403
              /\ Unchanged(r)
              /\ r.store = store

----------------------------------------------------------------------------
(* Concurrent uploads *)

\* C31: whatever the interleaving of two uploads of one subject, the
\* committed table never holds two records of that subject
C31_OneRecordPerSubject ==
  \A s \in Subjects : Cardinality(RecordsOf(s)) <= 1

\* two uploads of u1 were both committed, the one that stored its blob
\* first committing last
C31_Witness ==
  /\ \A w \in Workers : sessions[w] = NoSession
  /\ Len(audit) = 2
  /\ \A j \in Idx(audit) : audit[j].actor_id = "u1"
  /\ audit[1].details = <<2>>
  /\ audit[2].details = <<1>>
  /\ Cardinality(RecordsOf("u1")) = 1
  /\ kyc_records[Len(kyc_records)].ipfs_cid = 1

----------------------------------------------------------------------------
(* A new request after a revoke *)
AllRevoked(s, v) ==
  /\ RowsOf(s, v) # {}
  /\ \A i \in RowsOf(s, v) : consents[i].status = "revoked"

\* C32: when the records of a pair are all revoked and the subject holds a
\* document that is not expired, a request of the verifier appends a pending
\* record and leaves the revoked ones as they are, and no grant of the
\* subject, however it names the verifier, changes a revoked record: only
\* the new record can be granted
C32_FreshRequestAfterRevoke ==
  resp = Idle =>
    \A v \in Banks :
      (AllRevoked(VaultSubject, v) /\ ValidDocument(VaultSubject)) =>
        /\ LET r == request_access(v, wallet_address(VaultSubject), "raises")
           IN /\ r.status = 202
              /\ r.consents = Append(consents, ConsentRecord(VaultSubject, v))
        /\ \A id \in IdInputs :
             LET g == grant_access(VaultSubject, id, GenuineGrant[1],
                                   GenuineGrant[2], "raises")
             IN \A i \in RowsOf(VaultSubject, v) : g.consents[i] = consents[i]

----------------------------------------------------------------------------
(* Records of other subjects *)
ForeignRows(s) == {i \in Idx(consents) : consents[i].user_id # s}

----------------------------------------------------------------------------
(* The liveness check *)
\* the stored document of the subject can be fetched and opened
Matchable(s, net) ==
  \E i \in RecordsOf(s) : download_decrypted(kyc_records[i].ipfs_cid, net) # None

\* C34: a liveness check reports success, in its reply and in
\* liveness_verified of the record, only when the liveness detection passed
\* and the face match against the stored document scored above 35; it
\* reports no success when there is no stored document, when the document
\* cannot be fetched or opened, or when the match score is 0
C34_SuccessNeedsMatch ==
  resp = Idle =>
    \A live \in LivenessOutcomes, match \in MatchOutcomes, net \in NetOutcomes :
      LET r == check_liveness(VaultSubject, live, match, net)
          matched == Matchable(VaultSubject, net) /\ match[2] > MatchThreshold
      IN /\ r.payload[1] => (live[1] /\ matched)
         /\ \A i \in Idx(r.kyc_records) :
              (r.kyc_records[i].user_id = VaultSubject
                 /\ r.kyc_records[i].liveness_verified) => (live[1] /\ matched)

\* C36: for every liveness score L, match score M and fraud score F of
\* 0..100 and either answer of the liveness detection, the check promotes
\* the record to verified only if the detection passed and M > 35, and
\* never when M = 0.  Each fraud score is taken at the first check of its
\* record; the decision reads nothing else of the record.
C36_PromotionNeedsMatch ==
  (resp = Idle /\ kyc_records # <<>> /\ Checks = 0) =>
    \A is_live \in BOOLEAN, L \in Scores, M \in Scores :
      LET r == check_liveness(VaultSubject, <<is_live, L>>, compare_faces(M), "up")
      IN \A i \in Idx(kyc_records) :
           (~kyc_records[i].is_verified /\ r.kyc_records[i].is_verified)
             => (is_live /\ M > MatchThreshold /\ M # 0
                   /\ r.kyc_records[i].liveness_score
                        = Some(aggregate(L, M))
                   /\ aggregate(L, M) > LivenessThreshold
                   /\ kyc_records[i].fraud_score[1] < AutoVerifyFraud)

\* a record promoted by a check with aggregate 71 and fraud score 29
C36_Witness ==
  /\ resp = Idle
  /\ Checks = 1
  /\ \E i \in Idx(kyc_records) :
       /\ kyc_records[i].is_verified
       /\ kyc_records[i].liveness_verified
       /\ kyc_records[i].liveness_score = Some(71)
       /\ kyc_records[i].fraud_score = Some(29)

----------------------------------------------------------------------------
(* Fetch and revoke *)
ActiveConsent(s, v) ==
  \E i \in Idx(consents) :
    /\ consents[i].user_id = s
    /\ consents[i].bank_id = v
    /\ consents[i].status = "granted"

\* the step answers a verifier's fetch with the document
Delivers ==
  /\ resp = Idle
  /\ resp'.op = "bank_view_document"
  /\ resp'.status = 200

\* the step appends a document_accessed entry
LogsAccess ==
  /\ Len(audit') = Len(audit) + 1
  /\ audit'[Len(audit')].event_type = "document_accessed"

\* C35: once a revoke for (S, V) has committed, no step delivers the
\* decrypted document of S to V and no step appends a document_accessed
\* entry with actor V, also for a fetch whose consent check ran before the
\* revoke committed: a step that delivers or logs the access is taken while
\* V holds a granted consent of the subject whose document it is
C35_NoDeliveryAfterRevoke ==
  [][ /\ Delivers =>
          \E s \in Subjects :
            /\ ActiveConsent(s, resp'.caller)
            /\ \E k \in RecordsOf(s) :
                 download_decrypted(kyc_records[k].ipfs_cid, "up")
                   = Some(resp'.payload[2])
      /\ LogsAccess =>
          ActiveConsent(audit'[Len(audit')].target_user_id[1],
                        audit'[Len(audit')].actor_id) ]_vars

----------------------------------------------------------------------------
(* What the audit query shows of the entries of others *)
\* the entries of a table that have c as actor or as target
Concerning(table, c) ==
  SelectSeq(table, LAMBDA row : row.actor_id = c \/ row.target_user_id = Some(c))

\* C37: for a caller that is not the validator the answer of the audit
\* query, total and entries, for every filter and page, is the same for any
\* two tables that hold the same entries with the caller as actor or target:
\* nothing of the entries among other parties shows in it
C37_NonInterference ==
  resp = Idle =>
    \A c \in AuditReaders \ Validators, other \in AuditTables :
      Concerning(other, c) = Concerning(audit, c) =>
        \A skip \in Skips, limit \in Limits, event_type \in KindFilters :
          AuditLogList(other, c, skip, limit, event_type)
            = AuditLogList(audit, c, skip, limit, event_type)

\* a table with an entry among others beside an entry of the subject, and
\* the subject's query answered with the subject's entry alone
C37_Witness ==
  /\ resp.op = "get_audit_logs"
  /\ resp.caller = "u1"
  /\ resp.payload[1] = 1
  /\ Len(audit) = 3
  /\ \E i \in Idx(audit) :
       audit[i].actor_id = "b1" /\ audit[i].target_user_id = Some("b1")

----------------------------------------------------------------------------
(* Fetch and expiry *)
\* the document record of the subject is past its expires_at
Expired(s) ==
  \E k \in RecordsOf(s) :
    kyc_records[k].expires_at # None /\ kyc_records[k].expires_at[1] < now

\* C38: a verifier's fetch returns the document only while the document
\* record is unexpired; a grant obtained before the expiry does not yield
\* the document after it
C38_NoFetchAfterExpiry ==
  resp = Idle =>
    \A cu \in Banks, id \in ConsentIds, net \in NetOutcomes :
      LET r == bank_view_document(cu, id, net)
      IN r.status = 200 => ~Expired(consents[r.payload[1]].user_id)

----------------------------------------------------------------------------
(* What a verified record rests on *)
\* the check of liveness and fraud score that promotes a record
SelfJustified(k) ==
  /\ k.liveness_verified
  /\ k.fraud_score # None
  /\ k.fraud_score[1] < AutoVerifyFraud

\* the last decision of a verifier on the record, taken since its upload,
\* is an acceptance
AcceptedByVerifier(k) ==
  \E i \in Idx(audit) :
    /\ audit[i].event_type = "kyc_verified"
    /\ audit[i].target_user_id = Some(k.user_id)
    /\ audit[i].created_at >= k.uploaded_at
    /\ \A j \in Idx(audit) :
         (/\ j > i
          /\ audit[j].actor_id = audit[i].actor_id
          /\ audit[j].target_user_id = Some(k.user_id))
           => audit[j].details[1] # "rejected"

\* C39: every record with is_verified has liveness_verified and a fraud
\* score below the threshold, or was accepted by a verifier holding granted
\* consent; a later failed liveness check or a later reject of the verifier
\* leaves no record verified without that, and a new upload starts its
\* record unverified
C39_VerifiedIsJustified ==
  \A i \in Idx(kyc_records) :
    kyc_records[i].is_verified =>
      SelfJustified(kyc_records[i]) \/ AcceptedByVerifier(kyc_records[i])

====
